---- MODULE Spec2Model ----
(***************************************************************************)
(* A model of sqlython: the query compiler (sqlython/builder.py), the      *)
(* column filter (sqlython/filter.py) and the Model class with its builder *)
(* state, terminals and result pipeline (sqlython/model.py).               *)
(*                                                                         *)
(* Python values are tagged records, a dict is a function whose domain is  *)
(* its key set (<<>> is the empty dict), an insertion-ordered dict that    *)
(* the code iterates (data) is a sequence of [k, v] items, and SQL text is *)
(* a sequence of tokens in which "%s" is the placeholder.                  *)
(***************************************************************************)
EXTENDS Integers, Sequences, FiniteSets, TLC

VARIABLES
    base,     \* Model.__query: the dict every subclass reads until it owns one
    own,      \* own[c]: the dict assigned to subclass c by `cls.__query = {}`
    calls,    \* calls[d]: builder calls that wrote to dict d since it was last empty
    conn,     \* events of the connection layer during the last call
    stmts,    \* statements compiled during the last call, in order
    result,   \* what the last call returned or raised
    pc,       \* where each caller, or _execute, is in its code
    mine,     \* mine[r]: the clauses request r has added itself (SpecRequests)
    arg,      \* the input drawn for the operation under check
    ret       \* what the operation under check returns or is about to return

vars == <<base, own, calls, conn, stmts, result, pc, mine, arg, ret>>

(***************************************************************************)
(* Python values                                                           *)
(***************************************************************************)
NoneV == [t |-> "none"]
IntV(i) == [t |-> "int", i |-> i]
BoolV(b) == [t |-> "bool", b |-> b]
StrV(s) == [t |-> "str", s |-> s]
ListV(l) == [t |-> "list", l |-> l]
NowV == [t |-> "datetime"]

\* bool(v): Python truthiness, as used by `not x` and `if x`.
Truthy(v) ==
    CASE v.t = "none" -> FALSE
      [] v.t = "int" -> v.i # 0
      [] v.t = "bool" -> v.b
      [] v.t = "str" -> v.s # ""
      [] v.t = "list" -> v.l # <<>>
      [] OTHER -> TRUE

\* int(v) for the values a limit or an offset holds.
PyInt(v) ==
    CASE v.t = "int" -> v.i
      [] v.t = "bool" -> IF v.b THEN 1 ELSE 0
      [] OTHER -> 0

(***************************************************************************)
(* dicts                                                                   *)
(***************************************************************************)
EmptyDict == <<>>
Has(d, k) == k \in DOMAIN d
DictGet(d, k, default) == IF k \in DOMAIN d THEN d[k] ELSE default
DictSet(d, k, v) == [x \in (DOMAIN d) \cup {k} |-> IF x = k THEN v ELSE d[x]]

\* d.get(k) is truthy, for the keys that hold a list or a dict.
NonEmpty(d, k) == Has(d, k) /\ d[k] # <<>>
\* d.get(k) is truthy, for the keys that hold a Python value.
TruthyKey(d, k) == Has(d, k) /\ Truthy(d[k])

\* An insertion-ordered dict: a sequence of [k, v] items with distinct keys.
ItemKeys(items) == {items[i].k : i \in 1..Len(items)}
ItemSet(items, k, v) ==
    IF k \in ItemKeys(items)
    THEN [i \in 1..Len(items) |-> IF items[i].k = k THEN [k |-> k, v |-> v] ELSE items[i]]
    ELSE Append(items, [k |-> k, v |-> v])

RECURSIVE Flatten(_)
Flatten(ss) == IF ss = <<>> THEN <<>> ELSE Head(ss) \o Flatten(Tail(ss))

\* sep.join(parts) as tokens.
RECURSIVE JoinWith(_, _)
JoinWith(parts, sep) ==
    IF parts = <<>> THEN <<>>
    ELSE IF Len(parts) = 1 THEN <<parts[1]>>
    ELSE <<parts[1], sep>> \o JoinWith(Tail(parts), sep)

(***************************************************************************)
(* sqlython/builder.py                                                     *)
(***************************************************************************)
\* f"{table}.{name}" unless '.' in name; Dotted is the names that contain a
\* '.', so that the test can be decided.
Qualify(table, name) ==
    LET Dotted == {"posts.user_id", "users.id", "posts.id"}
    IN  IF name \in Dotted THEN name ELSE table \o "." \o name

\* The SET list with booleans bound like any other value.
set_items_binding_booleans(data) ==
    [sql |-> Flatten([i \in 1..Len(data) |->
                 <<data[i].k, "=", IF data[i].v.t = "none" THEN "NULL" ELSE "%s", ",">>]),
     bindings |-> LET bound == SelectSeq(data, LAMBDA it : it.v.t # "none")
                  IN  [i \in 1..Len(bound) |-> bound[i].v]]

\* Lines 33-43: the SET list; the trailing ", " is cut by sql_query[:-2].
RECURSIVE set_items(_)
set_items(data) ==
    IF data = <<>> THEN [sql |-> <<>>, bindings |-> <<>>]
    ELSE LET item == Head(data)
             rest == set_items(Tail(data))
             one == IF item.v.t = "none"
                        THEN [sql |-> <<item.k, "=", "NULL", ",">>, bindings |-> <<>>]
                    ELSE IF item.v.t = "bool"
                        THEN [sql |-> <<item.k, "=", IF item.v.b THEN "1" ELSE "0", ",">>,
                              bindings |-> <<>>]
                    ELSE [sql |-> <<item.k, "=", "%s", ",">>, bindings |-> <<item.v>>]
         IN  [sql |-> one.sql \o rest.sql, bindings |-> one.bindings \o rest.bindings]

\* One clause of the WHERE with an IS or IS NOT value bound like any other.
write_clause_binding_is(table, clause, first) ==
    LET chain == IF first THEN <<>> ELSE <<clause.chain>>
    IN  IF Has(clause, "raw") /\ clause.raw # ""
        THEN [sql |-> chain \o <<clause.raw>>, bindings |-> <<>>]
        ELSE IF clause.operator \in {"IN", "NOT IN"}
        THEN [sql |-> chain \o <<Qualify(table, clause.field), clause.operator, "(">>
                        \o JoinWith([i \in 1..Len(clause.value.l) |-> "%s"], ",")
                        \o <<")">>,
              bindings |-> clause.value.l]
        ELSE [sql |-> chain \o <<Qualify(table, clause.field), clause.operator, "%s">>,
              bindings |-> <<clause.value>>]

\* One clause of the WHERE with a raw clause written without its chain word.
write_clause_unchained_raw(table, clause, first) ==
    LET chain == IF first THEN <<>> ELSE <<clause.chain>>
        \* str(v) as the f-string of line 68 renders it.
        PyStr(v) ==
            CASE v.t = "none" -> "None"
              [] v.t = "str" -> v.s
              [] v.t = "bool" -> IF v.b THEN "True" ELSE "False"
              [] v.t = "int" -> ToString(v.i)
              [] OTHER -> "?"
    IN  IF Has(clause, "raw") /\ clause.raw # ""
        THEN [sql |-> <<clause.raw>>, bindings |-> <<>>]
        ELSE LET new_field == Qualify(table, clause.field)
             IN  IF clause.operator \in {"IN", "NOT IN"}
                 THEN [sql |-> chain \o <<new_field, clause.operator, "(">>
                                 \o JoinWith([i \in 1..Len(clause.value.l) |-> "%s"], ",")
                                 \o <<")">>,
                       bindings |-> clause.value.l]
                 ELSE IF clause.operator \in {"IS", "IS NOT"}
                 THEN [sql |-> chain \o <<new_field, clause.operator, PyStr(clause.value)>>,
                       bindings |-> <<>>]
                 ELSE [sql |-> chain \o <<new_field, clause.operator, "%s">>,
                       bindings |-> <<clause.value>>]

\* Lines 55-72: one clause of the WHERE, at index i (0-based in the code).
write_clause(table, clause, first) ==
    LET chain == IF first THEN <<>> ELSE <<clause.chain>>
        \* str(v) as the f-string of line 68 renders it.
        PyStr(v) ==
            CASE v.t = "none" -> "None"
              [] v.t = "str" -> v.s
              [] v.t = "bool" -> IF v.b THEN "True" ELSE "False"
              [] v.t = "int" -> ToString(v.i)
              [] OTHER -> "?"
    IN  IF Has(clause, "raw") /\ clause.raw # ""
        THEN [sql |-> chain \o <<clause.raw>>, bindings |-> <<>>]
        ELSE LET new_field == Qualify(table, clause.field)
             IN  IF clause.operator \in {"IN", "NOT IN"}
                 THEN [sql |-> chain \o <<new_field, clause.operator, "(">>
                                 \o JoinWith([i \in 1..Len(clause.value.l) |-> "%s"], ",")
                                 \o <<")">>,
                       bindings |-> clause.value.l]
                 ELSE IF clause.operator \in {"IS", "IS NOT"}
                 THEN [sql |-> chain \o <<new_field, clause.operator, PyStr(clause.value)>>,
                       bindings |-> <<>>]
                 ELSE [sql |-> chain \o <<new_field, clause.operator, "%s">>,
                       bindings |-> <<clause.value>>]

\* write_limit appending the OFFSET binding before the LIMIT binding.
write_limit_offset_first(query) ==
    IF TruthyKey(query, "limit")
    THEN IF TruthyKey(query, "offset")
         THEN [sql |-> <<"LIMIT", "%s", "OFFSET", "%s">>,
               bindings |-> <<IntV(PyInt(query["offset"])), IntV(PyInt(query["limit"]))>>]
         ELSE [sql |-> <<"LIMIT", "%s">>, bindings |-> <<IntV(PyInt(query["limit"]))>>]
    ELSE [sql |-> <<>>, bindings |-> <<>>]

\* Lines 89-94.
write_limit(query) ==
    IF TruthyKey(query, "limit")
    THEN IF TruthyKey(query, "offset")
         THEN [sql |-> <<"LIMIT", "%s", "OFFSET", "%s">>,
               bindings |-> <<IntV(PyInt(query["limit"])), IntV(PyInt(query["offset"]))>>]
         ELSE [sql |-> <<"LIMIT", "%s">>, bindings |-> <<IntV(PyInt(query["limit"]))>>]
    ELSE [sql |-> <<>>, bindings |-> <<>>]

\* The statement head with a delete accepted without a where list.
write_head_any_delete(table, query, action) ==
    CASE action = "select" ->
           [ok |-> TRUE,
            sql |-> <<"SELECT">>
                \o (IF NonEmpty(query, "select")
                    THEN JoinWith(query["select"], ",")
                    ELSE <<table \o ".*">>
                         \o (IF NonEmpty(query, "joins")
                             THEN Flatten([i \in 1..Len(query["joins"]) |->
                                      <<",", query["joins"][i].table \o ".*">>])
                             ELSE <<>>))
                \o <<"FROM", table>>]
      [] action = "insert" ->
           IF ~NonEmpty(query, "data")
           THEN [ok |-> FALSE, error |-> "Insert query must have data!"]
           ELSE [ok |-> TRUE, sql |-> <<"INSERT INTO", table>>]
      [] action = "update" ->
           IF ~NonEmpty(query, "data")
           THEN [ok |-> FALSE, error |-> "Update query must have data!"]
           ELSE [ok |-> TRUE, sql |-> <<"UPDATE", table>>]
      [] action = "delete" -> [ok |-> TRUE, sql |-> <<"DELETE FROM", table>>]
      [] OTHER -> [ok |-> FALSE, error |-> "Invalid __query.action"]

\* Lines 8-31: the statement head, or the validation error that is raised.
write_head(table, query, action) ==
    CASE action = "select" ->
           [ok |-> TRUE,
            sql |-> <<"SELECT">>
                \o (IF NonEmpty(query, "select")
                    THEN JoinWith(query["select"], ",")
                    ELSE <<table \o ".*">>
                         \o (IF NonEmpty(query, "joins")
                             THEN Flatten([i \in 1..Len(query["joins"]) |->
                                      <<",", query["joins"][i].table \o ".*">>])
                             ELSE <<>>))
                \o <<"FROM", table>>]
      [] action = "insert" ->
           IF ~NonEmpty(query, "data")
           THEN [ok |-> FALSE, error |-> "Insert query must have data!"]
           ELSE [ok |-> TRUE, sql |-> <<"INSERT INTO", table>>]
      [] action = "update" ->
           IF ~NonEmpty(query, "data")
           THEN [ok |-> FALSE, error |-> "Update query must have data!"]
           ELSE [ok |-> TRUE, sql |-> <<"UPDATE", table>>]
      [] action = "delete" ->
           IF ~NonEmpty(query, "where")
           THEN [ok |-> FALSE, error |-> "Delete query must have where clause!"]
           ELSE [ok |-> TRUE, sql |-> <<"DELETE FROM", table>>]
      [] OTHER -> [ok |-> FALSE, error |-> "Invalid __query.action"]

\* Lines 1-96.
query_builder(table, query) ==
    IF Has(query, "raw_query") /\ query["raw_query"] # ""
    THEN [ok |-> TRUE, sql |-> <<query["raw_query"]>>, bindings |-> <<>>]
    ELSE
    LET action == DictGet(query, "action", "select")
        head == write_head(table, query, action)
        \* Lines 33-43: the trailing ", " is cut by sql_query[:-2].
        write_set(data) ==
            LET s == set_items(data)
            IN  [sql |-> <<"SET">> \o SubSeq(s.sql, 1, Len(s.sql) - 1), bindings |-> s.bindings]
        \* Lines 45-51: joins, each qualified in place.
        qualify_join(join) ==
            [join EXCEPT !.first = Qualify(table, join.first),
                         !.second = Qualify(join.table, join.second)]
        write_joins(joins) ==
            Flatten([i \in 1..Len(joins) |->
                LET j == qualify_join(joins[i])
                IN  <<j.type, "JOIN", j.table, "ON", j.first, j.operator, j.second>>])
        \* Lines 53-73.
        write_where(clauses) ==
            LET parts == [i \in 1..Len(clauses) |-> write_clause(table, clauses[i], i = 1)]
            IN  [sql |-> Flatten([i \in 1..Len(clauses) |-> parts[i].sql]),
                 bindings |-> Flatten([i \in 1..Len(clauses) |-> parts[i].bindings])]
        \* Lines 79-84.
        write_order_by(order_by) ==
            <<"ORDER BY", Qualify(table, order_by.field),
              IF order_by.direction \in {"ASC", "DESC"} THEN order_by.direction ELSE "ASC">>
        \* Lines 86-87.
        write_group_by(group_by) == <<"GROUP BY">> \o JoinWith(group_by, ",")
    IN  IF ~head.ok THEN head
        ELSE
        LET set == IF action \in {"update", "insert"}
                   THEN write_set(query["data"])
                   ELSE [sql |-> <<>>, bindings |-> <<>>]
            joins == IF NonEmpty(query, "joins")
                     THEN write_joins(query["joins"]) ELSE <<>>
            where == IF NonEmpty(query, "where")
                     THEN LET w == write_where(query["where"])
                          IN  [sql |-> <<"WHERE">> \o w.sql, bindings |-> w.bindings]
                     ELSE [sql |-> <<>>, bindings |-> <<>>]
            order == IF NonEmpty(query, "order_by")
                     THEN write_order_by(query["order_by"]) ELSE <<>>
            group == IF NonEmpty(query, "group_by")
                     THEN write_group_by(query["group_by"]) ELSE <<>>
            limit == write_limit(query)
        IN  [ok |-> TRUE,
             sql |-> head.sql \o set.sql \o joins \o where.sql \o order \o group \o limit.sql,
             bindings |-> set.bindings \o where.bindings \o limit.bindings]

(***************************************************************************)
(* The compiler as a pure function: SpecBuilder draws a description and    *)
(* compiles it.                                                            *)
(***************************************************************************)
MaxWhere == 2

RECURSIVE SeqsUpTo(_, _)
SeqsUpTo(S, n) ==
    IF n = 0 THEN {<<>>}
    ELSE LET shorter == SeqsUpTo(S, n - 1)
         IN  shorter \cup {Append(s, x) : s \in shorter, x \in S}

Clause(field, operator, value, chain) ==
    [field |-> field, operator |-> operator, value |-> value, chain |-> chain]
Item(k, v) == [k |-> k, v |-> v]

\* The descriptions compiled: every key is absent or holds one of a few
\* values.
BuilderQueries ==
    LET BuilderClauses ==
            { Clause("id", "=", IntV(1), "AND"),
              Clause("posts.id", ">", IntV(0), "OR"),
              Clause("id", "IN", ListV(<<IntV(1), IntV(2)>>), "AND"),
              Clause("name", "NOT IN", ListV(<<>>), "OR"),
              Clause("deleted_at", "IS", StrV("NULL"), "AND"),
              [raw |-> "a > 1", chain |-> "OR"] }
        Part(k, values) == {k :> v : v \in values}
        Optional(parts) == {EmptyDict} \cup parts
    IN
    { a @@ w @@ d @@ l @@ o @@ x :
        a \in Optional(Part("action", {"select", "insert", "update", "delete", "raw"})),
        w \in Optional(Part("where", SeqsUpTo(BuilderClauses, MaxWhere))),
        d \in Optional(Part("data", { <<>>,
                                      <<Item("name", StrV("x")), Item("active", BoolV(TRUE))>>,
                                      <<Item("deleted_at", NoneV), Item("active", BoolV(FALSE)),
                                        Item("id", IntV(2))>> })),
        l \in Optional(Part("limit", {NoneV, IntV(0), IntV(5)})),
        o \in Optional(Part("offset", {IntV(0), IntV(3)})),
        x \in { EmptyDict,
                ("select" :> <<"id", "name">>)
                    @@ ("joins" :> <<[table |-> "posts", first |-> "id", operator |-> "=",
                                      second |-> "user_id", type |-> "INNER"]>>),
                ("joins" :> <<[table |-> "posts", first |-> "users.id", operator |-> "=",
                               second |-> "posts.user_id", type |-> "LEFT"]>>)
                    @@ ("group_by" :> <<"name">>),
                ("order_by" :> [field |-> "id", direction |-> "desc"])
                    @@ ("group_by" :> <<"name", "id">>),
                ("raw_query" :> "SELECT 1") } }

InitModel ==
    /\ base = EmptyDict
    /\ own = EmptyDict
    /\ calls = EmptyDict
    /\ conn = <<>>
    /\ stmts = <<>>
    /\ result = [op |-> "init"]

InitBuilder ==
    /\ InitModel
    /\ pc = "idle"
    /\ mine = EmptyDict
    /\ arg \in {[table |-> "users", query |-> q] : q \in BuilderQueries}
    /\ ret = [done |-> FALSE]

Compile ==
    /\ ~ret.done
    /\ ret' = [done |-> TRUE, out |-> query_builder(arg.table, arg.query)]
    /\ UNCHANGED <<base, own, calls, conn, stmts, result, pc, mine, arg>>

SpecBuilder == InitBuilder /\ [][Compile]_vars

(***************************************************************************)
(* Placeholders and the values they stand for                              *)
(***************************************************************************)
\* The description holds structured clauses only.
Structured(query) ==
    /\ ~Has(query, "raw_query")
    /\ \A i \in 1..Len(DictGet(query, "where", <<>>)) : ~Has(query["where"][i], "raw")

\* The tokens that name what a following placeholder stands for.
OwnerNames(table, query) ==
    {"LIMIT", "OFFSET"}
        \cup ItemKeys(DictGet(query, "data", <<>>))
        \cup {Qualify(table, query["where"][i].field) :
                 i \in 1..Len(DictGet(query, "where", <<>>))}

\* For each placeholder of the text, in order, the last owner name before it.
RECURSIVE PlaceholderOwners(_, _, _)
PlaceholderOwners(sql, names, owner) ==
    IF sql = <<>> THEN <<>>
    ELSE IF Head(sql) = "%s"
         THEN <<owner>> \o PlaceholderOwners(Tail(sql), names, owner)
    ELSE IF Head(sql) \in names
         THEN PlaceholderOwners(Tail(sql), names, Head(sql))
    ELSE PlaceholderOwners(Tail(sql), names, owner)

Bound(owner, value) == [owner |-> owner, value |-> value]

\* The scalar values of the description: SET, then WHERE, then LIMIT, then OFFSET.
ExpectedSet(query) ==
    IF DictGet(query, "action", "select") \in {"insert", "update"}
    THEN LET bound == SelectSeq(query["data"], LAMBDA it : it.v.t \notin {"none", "bool"})
         IN  [i \in 1..Len(bound) |-> Bound(bound[i].k, bound[i].v)]
    ELSE <<>>

ExpectedClause(table, c) ==
    IF c.operator \in {"IN", "NOT IN"}
    THEN [i \in 1..Len(c.value.l) |-> Bound(Qualify(table, c.field), c.value.l[i])]
    ELSE IF c.operator \in {"IS", "IS NOT"} THEN <<>>
    ELSE <<Bound(Qualify(table, c.field), c.value)>>

ExpectedWhere(table, query) ==
    LET where == DictGet(query, "where", <<>>)
    IN  Flatten([i \in 1..Len(where) |-> ExpectedClause(table, where[i])])

ExpectedLimit(query) ==
    IF TruthyKey(query, "limit")
    THEN <<Bound("LIMIT", IntV(PyInt(query["limit"])))>>
         \o (IF TruthyKey(query, "offset")
             THEN <<Bound("OFFSET", IntV(PyInt(query["offset"])))>> ELSE <<>>)
    ELSE <<>>

ExpectedBound(table, query) ==
    ExpectedSet(query) \o ExpectedWhere(table, query) \o ExpectedLimit(query)

Placeholders(sql) == SelectSeq(sql, LAMBDA tok : tok = "%s")

Compiled == ret.done /\ ret.out.ok

\* C1: every structured description that compiles yields as many placeholders
\* as bindings, and the k-th placeholder stands for the k-th binding: the SET
\* values, then the WHERE values in clause order, then LIMIT, then OFFSET.
C1_PlaceholdersMatchBindings ==
    (Compiled /\ Structured(arg.query)) =>
        LET owners == PlaceholderOwners(ret.out.sql, OwnerNames(arg.table, arg.query), "")
        IN  /\ Len(Placeholders(ret.out.sql)) = Len(ret.out.bindings)
            /\ [i \in 1..Len(owners) |-> Bound(owners[i], ret.out.bindings[i])]
                   = ExpectedBound(arg.table, arg.query)

\* An update with a bound SET value, an IN list, a LIMIT and an OFFSET.
C1_Witness ==
    /\ Compiled /\ Structured(arg.query)
    /\ DictGet(arg.query, "action", "select") = "update"
    /\ Len(ExpectedSet(arg.query)) > 0
    /\ Len(ExpectedWhere(arg.table, arg.query)) > 1
    /\ Len(ExpectedLimit(arg.query)) = 2

(***************************************************************************)
(* sqlython/filter.py: columns                                             *)
(***************************************************************************)
\* columns without the guarded test.
columns_ignoring_guarded(obj, fillable, guarded) ==
    SelectSeq(obj, LAMBDA it : fillable = {} \/ it.k \in fillable)

\* Lines 4-14, over an insertion-ordered dict; fillable and guarded are sets.
columns(obj, fillable, guarded) ==
    SelectSeq(obj, LAMBDA it : /\ (fillable = {} \/ it.k \in fillable)
                               /\ (guarded = {} \/ it.k \notin guarded))

(***************************************************************************)
(* sqlython/model.py: the model classes and their metadata                 *)
(***************************************************************************)
Classes == {"users", "posts"}
table(c) == c
primary_key(c) == "id"
soft_delete(c) == c = "users"
timestamp(c) == c = "users"
fillable(c) == IF c = "posts" THEN {"title", "user_id"} ELSE {}
guarded(c) == IF c = "users" THEN {"id"} ELSE {}
hidden(c) == IF c = "users" THEN {"secret"} ELSE {}
cls_per_page(c) == 10
\* No class declares casts: casts(row, {}) leaves every row as it is.
class_casts(c) == EmptyDict

RowsV(rows) == [t |-> "rows", rows |-> rows]
RowV(row) == [t |-> "row", row |-> row]
DictV(d) == [t |-> "dict", d |-> d]
ClsV(c) == [t |-> "cls", c |-> c]
ErrorV(e) == [t |-> "error", e |-> e]

(***************************************************************************)
(* sqlython/filter.py: casts. In this section a str is the sequence of its *)
(* characters, a dict is an insertion-ordered sequence of items whose keys *)
(* are values, and a float is a decimal number m / 10^e.                   *)
(***************************************************************************)
FloatV(m, e) == [t |-> "float", m |-> m, e |-> e]
\* An int too large for a float: beyond 1.8 * 10^308.
BigIntV == [t |-> "bigint"]
DateV(y, m, d) == [t |-> "date", y |-> y, m |-> m, d |-> d]
\* A datetime.datetime at midnight.
DateTimeV(y, m, d) == [t |-> "midnight", y |-> y, m |-> m, d |-> d]

Quote == "\""
Backslash == "\\"
\* A character str.isdigit() accepts and int() and float() refuse.
SuperscriptTwo == "sup2"
AsciiDigits == <<"0", "1", "2", "3", "4", "5", "6", "7", "8", "9">>
\* The value of an ASCII digit, and -1 for any other character.
DigitValue(ch) ==
    IF \E i \in 1..10 : AsciiDigits[i] = ch
    THEN (CHOOSE i \in 1..10 : AsciiDigits[i] = ch) - 1
    ELSE 0 - 1

\* str(n) for an int, zero-padded to width digits.
RECURSIVE Digits(_, _)
Digits(n, width) ==
    IF n < 0 THEN <<"-">> \o Digits(0 - n, width)
    ELSE IF n < 10 THEN [i \in 1..(width - 1) |-> "0"] \o <<AsciiDigits[n + 1]>>
    ELSE Append(Digits(n \div 10, width - 1), AsciiDigits[(n % 10) + 1])
\* The value of a run of ASCII digits.
RECURSIVE Number(_)
Number(s) == IF s = <<>> THEN 0
             ELSE 10 * Number(SubSeq(s, 1, Len(s) - 1)) + DigitValue(s[Len(s)])
\* str(i) for the int too large for a float: 1 followed by 400 zeros.
BigText == <<"1">> \o [i \in 1..400 |-> "0"]

RECURSIVE Normal(_, _)
Normal(m, e) == IF e > 0 /\ m % 10 = 0 THEN Normal(m \div 10, e - 1) ELSE FloatV(m, e)
\* repr(x) for a float: at least one decimal.
FloatText(f) ==
    LET RECURSIVE Pow10(_)
        Pow10(e) == IF e = 0 THEN 1 ELSE 10 * Pow10(e - 1)
        a == IF f.m < 0 THEN 0 - f.m ELSE f.m
        sign == IF f.m < 0 THEN <<"-">> ELSE <<>>
    IN  IF f.e = 0 THEN sign \o Digits(a, 1) \o <<".", "0">>
        ELSE sign \o Digits(a \div Pow10(f.e), 1) \o <<".">> \o Digits(a % Pow10(f.e), f.e)

\* The outcome of a library call: a value, or the exception it raises.
Ok(v) == [kind |-> "ok", v |-> v]
Fails(e) == [kind |-> "raise", e |-> e]

\* date.isoformat() and datetime.isoformat().
isoformat(v) ==
    LET day == Digits(v.y, 4) \o <<"-">> \o Digits(v.m, 2) \o <<"-">> \o Digits(v.d, 2)
    IN  IF v.t = "date" THEN day
        ELSE day \o <<"T", "0", "0", ":", "0", "0", ":", "0", "0">>

\* str(v). repr(v) is how str() writes a value inside a list, a dict or a
\* set; repr of a str is in single quotes, or in double quotes when it holds
\* a single quote and no double quote, with backslashes doubled.
py_str(v) ==
    LET repr_str(s) ==
            LET double == (\E i \in 1..Len(s) : s[i] = "'")
                              /\ ~(\E i \in 1..Len(s) : s[i] = Quote)
                mark == IF double THEN Quote ELSE "'"
            IN  <<mark>>
                    \o Flatten([i \in 1..Len(s) |->
                           IF s[i] = Backslash THEN <<Backslash, Backslash>>
                           ELSE IF s[i] = mark THEN <<Backslash, mark>>
                           ELSE <<s[i]>>])
                    \o <<mark>>
        RECURSIVE repr(_)
        repr(x) ==
            CASE x.t = "none" -> <<"N", "o", "n", "e">>
              [] x.t = "bool" ->
                   IF x.b THEN <<"T", "r", "u", "e">> ELSE <<"F", "a", "l", "s", "e">>
              [] x.t = "int" -> Digits(x.i, 1)
              [] x.t = "bigint" -> BigText
              [] x.t = "float" -> FloatText(x)
              [] x.t = "str" -> repr_str(x.s)
              [] x.t = "list" ->
                   <<"[">> \o Flatten(JoinWith([i \in 1..Len(x.l) |-> repr(x.l[i])], <<",", " ">>))
                       \o <<"]">>
              [] x.t = "set" ->
                   <<"{">> \o Flatten(JoinWith([i \in 1..Len(x.l) |-> repr(x.l[i])], <<",", " ">>))
                       \o <<"}">>
              [] x.t = "dict" ->
                   <<"{">> \o Flatten(JoinWith([i \in 1..Len(x.d) |->
                                            repr(x.d[i].k) \o <<":", " ">> \o repr(x.d[i].v)],
                                        <<",", " ">>)) \o <<"}">>
              [] x.t = "date" ->
                   <<"d", "a", "t", "e", "t", "i", "m", "e", ".", "d", "a", "t", "e", "(">>
                       \o Digits(x.y, 1) \o <<",", " ">> \o Digits(x.m, 1) \o <<",", " ">>
                       \o Digits(x.d, 1) \o <<")">>
              [] x.t = "midnight" ->
                   <<"d", "a", "t", "e", "t", "i", "m", "e", ".",
                     "d", "a", "t", "e", "t", "i", "m", "e", "(">>
                       \o Digits(x.y, 1) \o <<",", " ">> \o Digits(x.m, 1) \o <<",", " ">>
                       \o Digits(x.d, 1) \o <<",", " ", "0", ",", " ", "0", ")">>
    IN  CASE v.t = "str" -> v.s
          [] v.t = "date" -> isoformat(v)
          [] v.t = "midnight" ->
               isoformat(DateV(v.y, v.m, v.d)) \o <<" ", "0", "0", ":", "0", "0", ":", "0", "0">>
          [] OTHER -> repr(v)

\* The body of a JSON string: json.dumps escapes the quote, the backslash and
\* (ensure_ascii) every character outside ASCII.
escape_nothing(s) == s
escape(s) ==
    Flatten([i \in 1..Len(s) |->
        IF s[i] = Quote THEN <<Backslash, Quote>>
        ELSE IF s[i] = Backslash THEN <<Backslash, Backslash>>
        ELSE IF s[i] = SuperscriptTwo THEN <<Backslash, "u", "0", "0", "b", "2">>
        ELSE <<s[i]>>])

\* json.dumps(v) with the default separators; a value JSON has no form for
\* raises TypeError. A dict key is written as a string: a str as it is, a
\* number, a bool or None as its JSON text.
dumps(v) ==
    LET null == <<"n", "u", "l", "l">>
        true == <<"t", "r", "u", "e">>
        false == <<"f", "a", "l", "s", "e">>
        quoted(s) == <<Quote>> \o s \o <<Quote>>
        AllOk(results) == \A i \in 1..Len(results) : results[i].kind = "ok"
        key_text(k) ==
            CASE k.t = "str" -> Ok(escape(k.s))
              [] k.t = "int" -> Ok(Digits(k.i, 1))
              [] k.t = "bigint" -> Ok(BigText)
              [] k.t = "float" -> Ok(FloatText(k))
              [] k.t = "bool" -> Ok(IF k.b THEN true ELSE false)
              [] k.t = "none" -> Ok(null)
              [] OTHER -> Fails("TypeError")
        dumps_list(parts) ==
            IF AllOk(parts)
            THEN Ok(<<"[">> \o Flatten(JoinWith([i \in 1..Len(parts) |-> parts[i].v], <<",", " ">>))
                        \o <<"]">>)
            ELSE Fails("TypeError")
        dumps_dict(keys, parts) ==
            IF AllOk(keys) /\ AllOk(parts)
            THEN Ok(<<"{">> \o Flatten(JoinWith([i \in 1..Len(parts) |->
                                             quoted(keys[i].v) \o <<":", " ">> \o parts[i].v],
                                         <<",", " ">>)) \o <<"}">>)
            ELSE Fails("TypeError")
        RECURSIVE encode(_)
        encode(x) ==
            CASE x.t = "none" -> Ok(null)
              [] x.t = "bool" -> Ok(IF x.b THEN true ELSE false)
              [] x.t = "int" -> Ok(Digits(x.i, 1))
              [] x.t = "bigint" -> Ok(BigText)
              [] x.t = "float" -> Ok(FloatText(x))
              [] x.t = "str" -> Ok(quoted(escape(x.s)))
              [] x.t = "list" -> dumps_list([i \in 1..Len(x.l) |-> encode(x.l[i])])
              [] x.t = "dict" -> dumps_dict([i \in 1..Len(x.d) |-> key_text(x.d[i].k)],
                                            [i \in 1..Len(x.d) |-> encode(x.d[i].v)])
              [] OTHER -> Fails("TypeError")
    IN  encode(v)

\* json.loads(text): the decoder reads one value from position i of the
\* text; a result carries the value and the position after it. The whole
\* text is one value, or ValueError is raised.
loads(text) ==
    LET At(v, i) == [ok |-> TRUE, v |-> v, i |-> i]
        NoJson == [ok |-> FALSE]
        IsDigit(ch) == DigitValue(ch) >= 0
        RECURSIVE SkipWs(_, _)
        SkipWs(s, i) == IF i <= Len(s) /\ s[i] = " " THEN SkipWs(s, i + 1) ELSE i
        StartsWith(s, i, word) ==
            i + Len(word) - 1 <= Len(s) /\ SubSeq(s, i, i + Len(word) - 1) = word
        \* The last position of the run of digits that starts at j.
        RunEnd(s, j) ==
            CHOOSE k \in j..Len(s) :
                /\ \A x \in j..k : IsDigit(s[x])
                /\ k = Len(s) \/ ~IsDigit(s[k + 1])
        HasDigit(s, j) == j <= Len(s) /\ IsDigit(s[j])
        number_from(s, j, sign) ==
            IF ~HasDigit(s, j) THEN NoJson
            ELSE LET whole == IF s[j] = "0" THEN j ELSE RunEnd(s, j)
                 IN  IF whole + 1 <= Len(s) /\ s[whole + 1] = "." /\ HasDigit(s, whole + 2)
                     THEN At(Normal(sign * Number(SubSeq(s, j, whole)
                                                    \o SubSeq(s, whole + 2, RunEnd(s, whole + 2))),
                                    RunEnd(s, whole + 2) - (whole + 1)),
                             RunEnd(s, whole + 2) + 1)
                     ELSE IF SubSeq(s, j, whole) = BigText THEN At(BigIntV, whole + 1)
                     ELSE At(IntV(sign * Number(SubSeq(s, j, whole))), whole + 1)
        \* The characters of a string up to its closing quote.
        RECURSIVE scan_string(_, _, _)
        scan_string(s, i, acc) ==
            IF i > Len(s) THEN NoJson
            ELSE IF s[i] = Quote THEN At(StrV(acc), i + 1)
            ELSE IF s[i] = Backslash
            THEN IF i + 1 > Len(s) THEN NoJson
                 ELSE IF s[i + 1] \in {Quote, Backslash, "/"}
                 THEN scan_string(s, i + 2, Append(acc, s[i + 1]))
                 ELSE IF StartsWith(s, i + 1, <<"u", "0", "0", "b", "2">>)
                 THEN scan_string(s, i + 6, Append(acc, SuperscriptTwo))
                 ELSE NoJson
            ELSE scan_string(s, i + 1, Append(acc, s[i]))
        RECURSIVE parse_value(_, _), parse_elements(_, _, _, _), parse_members(_, _, _, _),
                  after_element(_, _, _), after_key(_, _, _), after_member(_, _, _, _)
        parse_value(s, i) ==
            IF i > Len(s) THEN NoJson
            ELSE IF s[i] = "{" THEN parse_members(s, SkipWs(s, i + 1), <<>>, TRUE)
            ELSE IF s[i] = "[" THEN parse_elements(s, SkipWs(s, i + 1), <<>>, TRUE)
            ELSE IF s[i] = Quote THEN scan_string(s, i + 1, <<>>)
            ELSE IF StartsWith(s, i, <<"n", "u", "l", "l">>) THEN At(NoneV, i + 4)
            ELSE IF StartsWith(s, i, <<"t", "r", "u", "e">>) THEN At(BoolV(TRUE), i + 4)
            ELSE IF StartsWith(s, i, <<"f", "a", "l", "s", "e">>) THEN At(BoolV(FALSE), i + 5)
            ELSE IF s[i] = "-" THEN number_from(s, i + 1, 0 - 1)
            ELSE IF IsDigit(s[i]) THEN number_from(s, i, 1)
            ELSE NoJson
        parse_elements(s, i, acc, opening) ==
            IF i > Len(s) THEN NoJson
            ELSE IF opening /\ s[i] = "]" THEN At(ListV(acc), i + 1)
            ELSE after_element(s, acc, parse_value(s, i))
        after_element(s, acc, r) ==
            IF ~r.ok THEN NoJson
            ELSE IF SkipWs(s, r.i) > Len(s) THEN NoJson
            ELSE IF s[SkipWs(s, r.i)] = ","
            THEN parse_elements(s, SkipWs(s, SkipWs(s, r.i) + 1), Append(acc, r.v), FALSE)
            ELSE IF s[SkipWs(s, r.i)] = "]" THEN At(ListV(Append(acc, r.v)), SkipWs(s, r.i) + 1)
            ELSE NoJson
        parse_members(s, i, acc, opening) ==
            IF i > Len(s) THEN NoJson
            ELSE IF opening /\ s[i] = "}" THEN At(DictV(acc), i + 1)
            ELSE IF s[i] # Quote THEN NoJson
            ELSE after_key(s, acc, scan_string(s, i + 1, <<>>))
        after_key(s, acc, k) ==
            IF ~k.ok THEN NoJson
            ELSE IF SkipWs(s, k.i) > Len(s) \/ s[SkipWs(s, k.i)] # ":" THEN NoJson
            ELSE after_member(s, acc, k.v, parse_value(s, SkipWs(s, SkipWs(s, k.i) + 1)))
        after_member(s, acc, key, r) ==
            IF ~r.ok THEN NoJson
            ELSE IF SkipWs(s, r.i) > Len(s) THEN NoJson
            ELSE IF s[SkipWs(s, r.i)] = ","
            THEN parse_members(s, SkipWs(s, SkipWs(s, r.i) + 1), ItemSet(acc, key, r.v), FALSE)
            ELSE IF s[SkipWs(s, r.i)] = "}"
            THEN At(DictV(ItemSet(acc, key, r.v)), SkipWs(s, r.i) + 1)
            ELSE NoJson
        decoded(s, r) ==
            IF r.ok /\ SkipWs(s, r.i) = Len(s) + 1 THEN Ok(r.v) ELSE Fails("ValueError")
    IN  decoded(text, parse_value(text, SkipWs(text, 1)))

\* Lines 22-58: the conversion of one field. The result is the value to
\* assign, the exception raised, or "untouched" when no branch matches the
\* tag and the field is not assigned.
cast_value(tag, value, reverse) ==
    LET IsNumber(v) == v.t \in {"int", "bigint", "bool", "float"}
        IsInt(v) == v.t \in {"int", "bigint", "bool"}
        NonZero(v) ==
            CASE v.t = "int" -> v.i # 0
              [] v.t = "bigint" -> TRUE
              [] v.t = "bool" -> v.b
        Text(r) == IF r.kind = "ok" THEN Ok(StrV(r.v)) ELSE r
        Bool(r) == IF r.kind = "ok" THEN Ok(BoolV(NonZero(r.v))) ELSE r
        \* str.isdigit(): not empty and every character a digit.
        isdigit(s) ==
            /\ s # <<>>
            /\ \A i \in 1..Len(s) : DigitValue(s[i]) >= 0 \/ s[i] = SuperscriptTwo
        \* s.replace('.', '', 1).
        without_first_point(s) ==
            IF \E i \in 1..Len(s) : s[i] = "."
            THEN LET p == CHOOSE i \in 1..Len(s) : s[i] = "." /\ \A j \in 1..(i - 1) : s[j] # "."
                 IN  SubSeq(s, 1, p - 1) \o SubSeq(s, p + 1, Len(s))
            ELSE s
        \* float(x) for a number: a result, or an OverflowError.
        float_of_number(v) ==
            CASE v.t = "int" -> Ok(FloatV(v.i, 0))
              [] v.t = "bool" -> Ok(FloatV(IF v.b THEN 1 ELSE 0, 0))
              [] v.t = "float" -> Ok(v)
              [] v.t = "bigint" -> Fails("OverflowError")
        \* float(s) for a str of digits with at most one point, as line 54
        \* lets through.
        float_of_str(s) ==
            IF \E i \in 1..Len(s) : s[i] = SuperscriptTwo THEN Fails("ValueError")
            ELSE IF \E i \in 1..Len(s) : s[i] = "."
            THEN LET p == CHOOSE i \in 1..Len(s) : s[i] = "."
                 IN  Ok(Normal(Number(SubSeq(s, 1, p - 1) \o SubSeq(s, p + 1, Len(s))),
                               Len(s) - p))
            ELSE Ok(FloatV(Number(s), 0))
        \* int(s) for a str that isdigit() accepts.
        int_of_str(s) ==
            IF \E i \in 1..Len(s) : s[i] = SuperscriptTwo THEN Fails("ValueError")
            ELSE Ok(IntV(Number(s)))
        DaysIn(y, m) ==
            IF m = 2 THEN (IF y % 4 = 0 /\ (y % 100 # 0 \/ y % 400 = 0) THEN 29 ELSE 28)
            ELSE IF m \in {4, 6, 9, 11} THEN 30 ELSE 31
        \* datetime.datetime.fromisoformat(s) for the form YYYY-MM-DD; any
        \* other text of the model is no ISO date and raises ValueError.
        fromisoformat(s) ==
            IF /\ Len(s) = 10
               /\ s[5] = "-" /\ s[8] = "-"
               /\ \A i \in {1, 2, 3, 4, 6, 7, 9, 10} : DigitValue(s[i]) >= 0
            THEN IF /\ Number(SubSeq(s, 1, 4)) >= 1
                    /\ Number(SubSeq(s, 6, 7)) \in 1..12
                    /\ Number(SubSeq(s, 9, 10)) >= 1
                    /\ Number(SubSeq(s, 9, 10))
                           <= DaysIn(Number(SubSeq(s, 1, 4)), Number(SubSeq(s, 6, 7)))
                 THEN Ok(DateTimeV(Number(SubSeq(s, 1, 4)), Number(SubSeq(s, 6, 7)),
                                   Number(SubSeq(s, 9, 10))))
                 ELSE Fails("ValueError")
            ELSE Fails("ValueError")
    IN  IF reverse
        THEN \* Lines 24-34: the outbound conversions.
             CASE tag = "json" ->
                    IF value.t \in {"dict", "list"} THEN Text(dumps(value)) ELSE Ok(NoneV)
               [] tag = "boolean" -> Ok(IntV(IF value.t = "bool" /\ value.b THEN 1 ELSE 0))
               [] tag = "date" ->
                    IF value.t \in {"date", "midnight"} THEN Ok(StrV(isoformat(value)))
                    ELSE Ok(NoneV)
               [] tag \in {"number", "float"} ->
                    IF IsNumber(value) THEN float_of_number(value) ELSE Ok(NoneV)
               [] tag = "string" ->
                    IF value # NoneV THEN Ok(StrV(py_str(value))) ELSE Ok(NoneV)
               [] OTHER -> [kind |-> "untouched"]
        ELSE \* Lines 36-58: the inbound conversions.
             CASE tag = "json" ->
                    IF value.t = "str" /\ value.s # <<>> THEN loads(value.s) ELSE Ok(NoneV)
               [] tag = "boolean" ->
                    IF value.t = "bool" THEN Ok(value)
                    ELSE IF IsInt(value) THEN Ok(BoolV(NonZero(value)))
                    ELSE IF value.t = "str" /\ isdigit(value.s) THEN Bool(int_of_str(value.s))
                    ELSE Ok(NoneV)
               [] tag = "date" ->
                    IF value.t = "str" THEN fromisoformat(value.s) ELSE Ok(NoneV)
               [] tag \in {"number", "float"} ->
                    IF IsNumber(value) THEN float_of_number(value)
                    ELSE IF value.t = "str" /\ isdigit(without_first_point(value.s))
                    THEN float_of_str(value.s)
                    ELSE Ok(NoneV)
               [] tag = "string" ->
                    IF value # NoneV THEN Ok(StrV(py_str(value))) ELSE Ok(NoneV)
               [] OTHER -> [kind |-> "untouched"]

\* Lines 16-61: obj is changed in place and returned. Line 59 turns a
\* ValueError, a TypeError or an AttributeError into None; any other
\* exception leaves casts with the fields cast so far.
RECURSIVE casts(_, _, _)
casts(obj, cast, reverse) ==
    LET cast_next(field, r) ==
            IF r.kind = "untouched" THEN casts(obj, Tail(cast), reverse)
            ELSE IF r.kind = "ok" THEN casts(DictSet(obj, field, r.v), Tail(cast), reverse)
            ELSE IF r.e \in {"ValueError", "TypeError", "AttributeError"}
            THEN casts(DictSet(obj, field, NoneV), Tail(cast), reverse)
            ELSE [kind |-> "raise", value |-> ErrorV(r.e), obj |-> obj]
    IN  IF cast = <<>> THEN [kind |-> "return", obj |-> obj]
        ELSE IF ~Has(obj, Head(cast).k) THEN casts(obj, Tail(cast), reverse)
        ELSE cast_next(Head(cast).k, cast_value(Head(cast).v, obj[Head(cast).k], reverse))

(***************************************************************************)
(* The class attribute __query. Its name is mangled to _Model__query, so   *)
(* a subclass reads Model's dict until `cls.__query = {}` gives it one.    *)
(***************************************************************************)
Q(h, c) == IF c \in DOMAIN h.own THEN h.own[c] ELSE h.base
\* cls.__query[k] = v: an item assignment on the dict the lookup finds.
Put(h, c, k, v) ==
    IF c \in DOMAIN h.own
    THEN [h EXCEPT !.own[c] = DictSet(@, k, v)]
    ELSE [h EXCEPT !.base = DictSet(@, k, v)]
\* cls.__query = {}: an attribute assignment on the class itself.
Reset(h, c) == [h EXCEPT !.own = DictSet(@, c, EmptyDict)]

\* What a call did: the heap it leaves, the connection events and the
\* statements it handed to _execute, and what it returned or raised.
Return(h, value) == [h |-> h, conn |-> <<>>, stmts |-> <<>>, kind |-> "return", value |-> value]
Raise(h, e) == [h |-> h, conn |-> <<>>, stmts |-> <<>>, kind |-> "raise", value |-> ErrorV(e)]
\* The effects of `before`, then those of `then`.
After(before, then) ==
    [then EXCEPT !.conn = before.conn \o @, !.stmts = before.stmts \o @]

(***************************************************************************)
(* Builder methods                                                         *)
(***************************************************************************)
\* cls.__query[key] = cls.__query.get(key, []), then append.
AppendTo(h, c, key, x) == Put(h, c, key, Append(DictGet(Q(h, c), key, <<>>), x))

\* Lines 238-264 (chain "AND") and 267-300 (chain "OR"); a str field.
where_chain(h, c, field, operator, value, chain) ==
    LET h1 == Put(h, c, "where", DictGet(Q(h, c), "where", <<>>))
    IN  IF ~Truthy(value)
        THEN IF ~Truthy(operator)
             THEN Raise(h1, "Second argument must be operator or value")
             ELSE Return(AppendTo(h1, c, "where", Clause(field, "=", operator, chain)), ClsV(c))
        ELSE Return(AppendTo(h1, c, "where", Clause(field, operator.s, value, chain)), ClsV(c))

where(h, c, field, operator, value) == where_chain(h, c, field, operator, value, "AND")
or_where(h, c, field, operator, value) == where_chain(h, c, field, operator, value, "OR")

\* Lines 253-256: a dict field, one '=' clause per item.
RECURSIVE where_dict(_, _, _)
where_dict(h, c, items) ==
    IF items = <<>> THEN Put(h, c, "where", DictGet(Q(h, c), "where", <<>>))
    ELSE where_dict(AppendTo(h, c, "where", Clause(Head(items).k, "=", Head(items).v, "AND")),
                    c, Tail(items))

\* Lines 336-352.
where_in(h, c, field, values) ==
    AppendTo(h, c, "where", Clause(field, "IN", ListV(values), "AND"))
\* Lines 372-387.
where_null(h, c, field) ==
    AppendTo(h, c, "where", Clause(field, "IS", StrV("NULL"), "AND"))
\* Lines 406-417.
with_trashed(h, c) == Put(h, c, "with_trashed", BoolV(TRUE))
\* Lines 458-474.
limit(h, c, lim, offset) == Put(Put(h, c, "limit", lim), c, "offset", offset)
\* Lines 170-193, with a list of fields.
select(h, c, fields) == Put(h, c, "select", DictGet(Q(h, c), "select", <<>>) \o fields)

Relation(model, foreign_key, local_key, name, type, callback) ==
    [model |-> model, foreignKey |-> foreign_key, localKey |-> local_key,
     identifier |-> IF name = "" THEN table(model) ELSE name,
     type |-> type, callback |-> callback]
\* Lines 476-506.
has_many(h, c, model, foreign_key, local_key, name, callback) ==
    AppendTo(h, c, "relations", Relation(model, foreign_key, local_key, name, "hasMany", callback))
\* Lines 508-538.
has_one(h, c, model, foreign_key, local_key, name, callback) ==
    AppendTo(h, c, "relations", Relation(model, foreign_key, local_key, name, "hasOne", callback))
\* Lines 540-570.
belongs_to(h, c, model, foreign_key, local_key, name, callback) ==
    AppendTo(h, c, "relations", Relation(model, foreign_key, local_key, name, "belongsTo", callback))

\* A relation's customization callback: none, or one that narrows the query.
call_callback(h, model, callback) ==
    IF callback = "published"
    THEN where(h, model, "published", IntV(1), NoneV).h
    ELSE h

(***************************************************************************)
(* The connection layer and Model._execute                                 *)
(***************************************************************************)
\* What the connection does with one statement: the step that raises, if
\* any, the rows a SELECT fetches and the number a COUNT(*) reports.
Env(outcome, rows, total) == [outcome |-> outcome, rows |-> rows, total |-> total]
Steps == {"acquire", "cursor", "execute", "commit", "fetchall"}
Writes == {"insert", "update", "delete"}

\* Lines 53-70; the connection releases in `finally` only what the try
\* block covers.
_execute(action, sql, env) ==
    LET execute_events(outcome) ==
            LET last == IF action \in Writes THEN "commit" ELSE "fetchall"
                body == IF outcome = "execute" THEN <<"raise:execute">>
                        ELSE IF outcome = last THEN <<"execute", "raise:" \o last>>
                        ELSE <<"execute", last>>
            IN  IF outcome = "acquire" THEN <<"raise:acquire">>
                ELSE IF outcome = "cursor" THEN <<"acquire", "raise:cursor">>
                ELSE <<"acquire", "cursor">> \o body \o <<"cursor.close", "close">>
        events == execute_events(env.outcome)
        \* cursor.fetchall(): what the database answers to the statement.
        fetchall ==
            IF \E i \in 1..Len(sql) : sql[i] = "COUNT(*) AS total"
            THEN <<"total" :> IntV(env.total)>>
            ELSE env.rows
        raised == \E i \in 1..Len(events) : events[i] \in {"raise:" \o s : s \in Steps}
    IN  [conn |-> events,
         kind |-> IF raised THEN "raise" ELSE "return",
         value |-> IF raised THEN ErrorV(env.outcome)
                   ELSE IF action = "insert" THEN DictV("insert_id" :> IntV(1))
                   ELSE IF action \in {"update", "delete"} THEN DictV("affected_rows" :> IntV(1))
                   ELSE RowsV(fetchall)]

(***************************************************************************)
(* Model._process                                                          *)
(***************************************************************************)
Statement(c, q, built, env) ==
    [cls |-> c, action |-> q["action"], sql |-> built.sql, bindings |-> built.bindings,
     where |-> DictGet(q, "where", <<>>), query |-> q]

\* Lines 110-115: the distinct non-null values of main_field, in row order;
\* a row without the field raises.
RECURSIVE collect_ids(_, _, _)
collect_ids(data, main_field, ids) ==
    IF data = <<>> THEN [ok |-> TRUE, ids |-> ids]
    ELSE LET row == Head(data)
         IN  IF ~Has(row, main_field) THEN [ok |-> FALSE]
             ELSE collect_ids(Tail(data), main_field,
                     IF row[main_field] # NoneV
                        /\ \A i \in 1..Len(ids) : ids[i] # row[main_field]
                     THEN Append(ids, row[main_field]) ELSE ids)

\* Lines 134-137 and 142-147: the related rows indexed by related_field.
RECURSIVE index_rows(_, _, _, _)
index_rows(results, related_field, many, data) ==
    IF results = <<>> THEN [ok |-> TRUE, data |-> data]
    ELSE LET row == Head(results)
         IN  IF ~(Has(row, related_field) /\ Truthy(row[related_field]))
             THEN [ok |-> FALSE]
             ELSE LET key == row[related_field]
                      entry == IF ~many THEN RowV(row)
                               ELSE IF key \in DOMAIN data
                                    THEN ListV(Append(data[key].l, row))
                                    ELSE ListV(<<row>>)
                  IN  index_rows(Tail(results), related_field, many, (key :> entry) @@ data)

\* Lines 157-160: the relations' values set on one row.
RECURSIVE attach(_, _)
attach(row, data_relation) ==
    IF data_relation = <<>> THEN row
    ELSE LET rel == Head(data_relation).v
             key == row[rel.key]
         IN  attach(DictSet(row, Head(data_relation).k,
                            IF key \in DOMAIN rel.data THEN rel.data[key] ELSE rel.empty),
                    Tail(data_relation))

\* Lines 161-163.
hide(row, fields) == [k \in (DOMAIN row) \ fields |-> row[k]]

\* The post-processing with the hidden fields removed before the relations
\* are attached.
post_process_hiding_first(c, data, data_relation, do_cast, do_relation, do_hide_field) ==
    IF data.t = "rows" /\ Len(data.rows) > 0 /\ (do_cast \/ do_relation \/ do_hide_field)
    THEN RowsV([i \in 1..Len(data.rows) |->
             LET shown == IF do_hide_field THEN hide(data.rows[i], hidden(c))
                          ELSE data.rows[i]
             IN  IF do_relation THEN attach(shown, data_relation) ELSE shown])
    ELSE data

\* Lines 149-166.
post_process(c, data, data_relation, do_cast, do_relation, do_hide_field) ==
    IF data.t = "rows" /\ Len(data.rows) > 0 /\ (do_cast \/ do_relation \/ do_hide_field)
    THEN RowsV([i \in 1..Len(data.rows) |->
             LET related == IF do_relation THEN attach(data.rows[i], data_relation)
                            ELSE data.rows[i]
             IN  IF do_hide_field THEN hide(related, hidden(c)) ELSE related])
    ELSE data

RECURSIVE _process(_, _, _, _), get(_, _, _), load_relations(_, _, _, _, _)
RECURSIVE attach_relation(_, _, _, _, _, _, _, _), run_statement(_, _, _, _, _)
RECURSIVE after_execute(_, _, _, _, _)

\* The relations in turn, each fetched even when no parent row has a value
\* to correlate on.
load_relations_unconditionally(c, relations, data, env, acc) ==
    IF relations = <<>> \/ acc.kind = "raise" THEN acc
    ELSE
    LET relation == Head(relations)
        main_field == IF relation.type = "belongsTo" THEN relation.foreignKey
                      ELSE relation.localKey
        found == collect_ids(data, main_field, <<>>)
    IN  IF ~found.ok
        THEN [acc EXCEPT !.kind = "raise", !.value = ErrorV("Field does not exist in model result")]
        ELSE
        LET model == relation.model
            h1 == Put(Put(Put(acc.h, model, "where", <<>>), model, "relations", <<>>),
                      model, "select", <<>>)
            h2 == call_callback(h1, model, relation.callback)
            related_field == IF relation.type = "belongsTo" THEN relation.localKey
                             ELSE relation.foreignKey
        IN  attach_relation(c, relations, data, env, acc, main_field, related_field,
                            get(where_in(h2, model, related_field, found.ids), model,
                                [main |-> env.rel, rel |-> env.rel]))

\* Lines 106-118: the relations in turn; acc carries the heap, the events,
\* the statements and data_relation, and stops at the first exception.
load_relations(c, relations, data, env, acc) ==
    IF relations = <<>> \/ acc.kind = "raise" THEN acc
    ELSE
    LET relation == Head(relations)
        main_field == IF relation.type = "belongsTo" THEN relation.foreignKey
                      ELSE relation.localKey
        found == collect_ids(data, main_field, <<>>)
    IN  IF ~found.ok
        THEN [acc EXCEPT !.kind = "raise", !.value = ErrorV("Field does not exist in model result")]
        ELSE IF found.ids = <<>>
        THEN load_relations(c, Tail(relations), data, env, acc)
        ELSE
        LET model == relation.model
            h1 == Put(Put(Put(acc.h, model, "where", <<>>), model, "relations", <<>>),
                      model, "select", <<>>)
            h2 == call_callback(h1, model, relation.callback)
            related_field == IF relation.type = "belongsTo" THEN relation.localKey
                             ELSE relation.foreignKey
        IN  attach_relation(c, relations, data, env, acc, main_field, related_field,
                            get(where_in(h2, model, related_field, found.ids), model,
                                [main |-> env.rel, rel |-> env.rel]))

\* Lines 119-147: the related rows, fetched as `results`, indexed for the
\* parent rows; iterating a None result raises.
attach_relation(c, relations, data, env, acc, main_field, related_field, results) ==
    LET relation == Head(relations)
        done == [acc EXCEPT !.h = results.h, !.conn = @ \o results.conn,
                            !.stmts = @ \o results.stmts]
    IN  IF results.kind = "raise"
        THEN [done EXCEPT !.kind = "raise", !.value = results.value]
        ELSE IF results.value.t # "rows"
        THEN [done EXCEPT !.kind = "raise",
                          !.value = ErrorV("TypeError: 'NoneType' object is not iterable")]
        ELSE
        LET many == relation.type = "hasMany"
            index == index_rows(results.value.rows, related_field, many, EmptyDict)
        IN  IF ~index.ok
            THEN [done EXCEPT !.kind = "raise",
                              !.value = ErrorV("Field is not exist in relation result")]
            ELSE load_relations(c, Tail(relations), data, env,
                    [done EXCEPT !.data_relation =
                        ItemSet(@, relation.identifier,
                                [empty |-> IF many THEN ListV(<<>>) ELSE NoneV,
                                 key |-> main_field,
                                 data |-> index.data])])

\* _process without the reset of lines 89-90.
process_keeping(h, c, reset, env) ==
    IF table(c) = "" THEN Raise(h, "Table name is not defined")
    ELSE run_statement(h, c, Q(h, c), query_builder(table(c), Q(h, c)), env)

\* Lines 72-91: the table check, the copy of the description, the reset and
\* the compilation, which is outside the try block.
_process(h, c, reset, env) ==
    IF table(c) = "" THEN Raise(h, "Table name is not defined")
    ELSE run_statement(IF reset THEN Reset(h, c) ELSE h, c, Q(h, c),
                       query_builder(table(c), Q(h, c)), env)

\* run_statement with the compilation inside the try block.
run_statement_catching(h1, c, _q, query, env) ==
    IF ~query.ok THEN Return(h1, NoneV)
    ELSE after_execute(c, _q, env, _execute(_q["action"], query.sql, env.main),
                       [h |-> h1, conn |-> <<>>, stmts |-> <<Statement(c, _q, query, env.main)>>,
                        kind |-> "return", value |-> NoneV])

\* Lines 91-96: a compilation error propagates; an exception of _execute is
\* logged and None returned.
run_statement(h1, c, _q, query, env) ==
    IF ~query.ok THEN Raise(h1, query.error)
    ELSE after_execute(c, _q, env, _execute(_q["action"], query.sql, env.main),
                       [h |-> h1, conn |-> <<>>, stmts |-> <<Statement(c, _q, query, env.main)>>,
                        kind |-> "return", value |-> NoneV])

\* Lines 98-168.
after_execute(c, _q, env, ran, sent) ==
    IF ran.kind = "raise" THEN [sent EXCEPT !.conn = ran.conn]
    ELSE
    LET is_select == _q["action"] = "select"
        do_cast == is_select /\ class_casts(c) # EmptyDict
        do_relation == is_select /\ Len(DictGet(_q, "relations", <<>>)) > 0
        do_hide_field == is_select /\ hidden(c) # {}
        start == [sent EXCEPT !.conn = ran.conn, !.value = ran.value]
                     @@ [data_relation |-> <<>>]
        \* Lines 149-168, on what relation loading left.
        processed(loaded) ==
            [h |-> loaded.h, conn |-> loaded.conn, stmts |-> loaded.stmts, kind |-> loaded.kind,
             value |-> IF loaded.kind = "raise" THEN loaded.value
                       ELSE post_process(c, ran.value, loaded.data_relation,
                                         do_cast, do_relation, do_hide_field)]
    IN  processed(IF do_relation
                  THEN load_relations(c, _q["relations"], ran.value.rows, env, start)
                  ELSE start)

\* Lines 612-625.
get(h, c, env) ==
    LET h1 == IF soft_delete(c) /\ ~TruthyKey(Q(h, c), "with_trashed")
              THEN where_null(h, c, "deleted_at") ELSE h
    IN  _process(Put(h1, c, "action", "select"), c, TRUE, env)

(***************************************************************************)
(* Terminals                                                               *)
(***************************************************************************)
\* Lines 627-639; first_of is lines 637-639, on what get returned.
first(h, c, env) ==
    LET first_of(r) ==
            IF r.kind = "raise" THEN r
            ELSE [r EXCEPT !.value = IF r.value.t = "rows" /\ r.value.rows # <<>>
                                     THEN RowV(r.value.rows[1]) ELSE NoneV]
    IN  first_of(get(Put(h, c, "limit", IntV(1)), c, env))

\* Lines 641-655.
find(h, c, pk, env) ==
    LET w == where(Put(h, c, "where", <<>>), c, primary_key(c), pk, NoneV)
    IN  IF w.kind = "raise" THEN w ELSE first(w.h, c, env)

\* Lines 657-669; count_of is lines 667-669, on what get returned.
count(h, c, env) ==
    LET count_of(r) ==
            IF r.kind = "raise" THEN r
            ELSE [r EXCEPT !.value = IF r.value.t = "rows" /\ r.value.rows # <<>>
                                     THEN DictGet(r.value.rows[1], "total", IntV(0))
                                     ELSE IntV(0)]
    IN  count_of(get(Put(h, c, "select", <<"COUNT(*) AS total">>), c, env))

\* insert without the test of line 689.
insert_unchecked(h, c, data, env) ==
    _process(Put(Put(h, c, "data", columns(data, fillable(c), guarded(c))), c, "action", "insert"),
             c, TRUE, env)

\* Lines 687-699.
insert(h, c, data, env) ==
    LET kept == columns(data, fillable(c), guarded(c))
        h1 == Put(h, c, "data", kept)
    IN  IF kept = <<>> THEN Return(h1, NoneV)
        ELSE LET stamped == IF timestamp(c) THEN ItemSet(kept, "created_at", NowV) ELSE kept
             IN  _process(Put(Put(h1, c, "data", stamped), c, "action", "insert"), c, TRUE, env)

\* Lines 718-738.
update(h, c, data, env) ==
    LET kept == columns(data, fillable(c), guarded(c))
        h1 == Put(h, c, "data", kept)
    IN  IF kept = <<>> THEN Return(h1, NoneV)
        ELSE IF ~Has(Q(h1, c), "where")
        THEN Raise(h1, "Update query must have where clause!")
        ELSE LET h2 == IF soft_delete(c) /\ ~TruthyKey(Q(h1, c), "with_trashed")
                       THEN where_null(h1, c, "deleted_at") ELSE h1
                 stamped == IF timestamp(c) THEN ItemSet(kept, "updated_at", NowV) ELSE kept
             IN  _process(Put(Put(h2, c, "data", stamped), c, "action", "update"), c, TRUE, env)

\* Lines 740-757.
delete(h, c, env) ==
    IF soft_delete(c)
    THEN _process(Put(Put(where_null(h, c, "deleted_at"), c, "data",
                          <<Item("deleted_at", NowV)>>), c, "action", "update"), c, TRUE, env)
    ELSE _process(Put(h, c, "action", "delete"), c, TRUE, env)

\* Lines 759-773.
restore(h, c, env) ==
    IF soft_delete(c)
    THEN _process(Put(Put(h, c, "data", <<Item("deleted_at", NoneV)>>), c, "action", "update"),
                  c, TRUE, env)
    ELSE Return(h, NoneV)

\* Lines 775-786.
force_delete(h, c, env) == _process(Put(h, c, "action", "delete"), c, TRUE, env)

\* Lines 596-610.
raw_query(h, c, env) ==
    LET ran == _execute("raw", <<"RAW">>, env.main)
    IN  [h |-> Put(h, c, "action", "raw"), conn |-> ran.conn, stmts |-> <<>>,
         kind |-> ran.kind, value |-> ran.value]

\* page_result with the page count rounded up.
page_result_ceil(data, total, page, per_page) ==
    LET pages == (total + per_page - 1) \div per_page
    IN  [t |-> "page", data |-> data, total |-> total, pages |-> pages, page |-> page,
         per_page |-> per_page,
         next_page |-> IF page < pages THEN IntV(page + 1) ELSE NoneV,
         prev_page |-> IF 1 < page /\ page <= pages THEN IntV(page - 1) ELSE NoneV]

\* Lines 828-837: the page arithmetic; int(total / per_page) is the floor
\* for the non-negative totals a COUNT(*) reports.
page_result(data, total, page, per_page) ==
    LET pages == total \div per_page
    IN  [t |-> "page", data |-> data, total |-> total, pages |-> pages, page |-> page,
         per_page |-> per_page,
         next_page |-> IF page < pages THEN IntV(page + 1) ELSE NoneV,
         prev_page |-> IF 1 < page /\ page <= pages THEN IntV(page - 1) ELSE NoneV]

\* Lines 788-837; page and per_page are ints.
paginate(h, c, page, per_page, env) ==
    LET q == Q(h, c)
        offset0 == DictGet(q, "offset", IntV(0))
        limit0 == DictGet(q, "limit", IntV(cls_per_page(c)))
        \* Lines 827-837, on what count returned: total / per_page raises for
        \* a per_page of 0.
        paginated(data, total, page1, size) ==
            IF total.kind = "raise" THEN After(data, total)
            ELSE IF size = 0
            THEN After(data, [total EXCEPT !.kind = "raise",
                              !.value = ErrorV("ZeroDivisionError: division by zero")])
            ELSE After(data, [total EXCEPT !.value =
                                page_result(data.value, total.value.i, page1, size)])
        \* Lines 822-827, on what the data fetch returned: the soft-delete test
        \* is made again, the last clause is popped, limit and offset are
        \* cleared and the rows are counted.
        count_page(page1, size, data) ==
            IF data.kind = "raise" THEN data
            ELSE
            LET q1 == Q(data.h, c)
                filtered == soft_delete(c) /\ ~TruthyKey(q1, "with_trashed")
            IN  IF filtered /\ ~Has(q1, "where")
                THEN [data EXCEPT !.kind = "raise", !.value = ErrorV("KeyError: 'where'")]
                ELSE IF filtered /\ q1["where"] = <<>>
                THEN [data EXCEPT !.kind = "raise",
                                  !.value = ErrorV("IndexError: pop from empty list")]
                ELSE
                LET popped == IF filtered
                              THEN Put(data.h, c, "where",
                                       SubSeq(q1["where"], 1, Len(q1["where"]) - 1))
                              ELSE data.h
                    h4 == Put(Put(popped, c, "limit", NoneV), c, "offset", NoneV)
                IN  paginated(data, count(h4, c, [main |-> env.count, rel |-> env.rel]),
                              page1, size)
    IN  IF page < 1 /\ (offset0.t # "int" \/ limit0.t # "int")
        THEN Raise(h, "TypeError: unsupported operand type(s) for /")
        ELSE IF page < 1 /\ limit0.i = 0
        THEN Raise(h, "ZeroDivisionError: division by zero")
        ELSE
        LET page1 == IF page < 1 THEN (offset0.i \div limit0.i) + 1 ELSE page
            per_page1 == IF per_page < 1 THEN limit0 ELSE IntV(per_page)
            h1 == Put(h, c, "limit", per_page1)
        IN  IF per_page1.t # "int"
            THEN Raise(h1, "TypeError: unsupported operand type(s) for *")
            ELSE
            LET h2 == Put(h1, c, "offset", IntV((page1 - 1) * per_page1.i))
                filtered == soft_delete(c) /\ ~TruthyKey(Q(h2, c), "with_trashed")
                h3 == IF filtered THEN where_null(h2, c, "deleted_at") ELSE h2
            IN  count_page(page1, per_page1.i,
                           _process(Put(h3, c, "action", "select"), c, FALSE,
                                    [main |-> env.main, rel |-> env.rel]))

(***************************************************************************)
(* The state machine: a caller issues builder calls and terminals on the   *)
(* two classes, the connection answers each statement, and the caller      *)
(* takes the result before its next call.                                  *)
(***************************************************************************)
MaxCalls == 2

\* The rows of a table: one with a correlation value and one without.
Rows(c) ==
    IF c = "users"
    THEN << ("id" :> IntV(1)) @@ ("secret" :> StrV("s")),
            ("id" :> NoneV) @@ ("secret" :> StrV("s")) >>
    ELSE << ("id" :> IntV(10)) @@ ("user_id" :> IntV(1)),
            ("id" :> IntV(12)) @@ ("user_id" :> NoneV) >>
\* No row, the row with a correlation value, the one without, or both.
RowLists(c) == {<<>>, <<Rows(c)[1]>>, <<Rows(c)[2]>>, Rows(c)}

\* What the connection may do with a statement on table c: raise, or
\* answer with rows; and with a COUNT(*): raise, or answer with a total.
Failing == Env("execute", <<>>, 0)
NoEnv == Env("ok", <<>>, 0)
Envs(c) == {Failing} \cup {Env("ok", rows, 0) : rows \in RowLists(c)}
WriteEnvs == {Failing, NoEnv}
CountEnvs == {Failing} \cup {Env("ok", <<>>, t) : t \in {0, 3}}
Other(c) == IF c = "users" THEN "posts" ELSE "users"
\* The related statements of a call on c go to the other table, if any is sent.
RelEnvs(h, c) ==
    IF DictGet(Q(h, c), "relations", <<>>) = <<>> THEN {NoEnv}
    ELSE {Failing, NoEnv, Env("ok", <<Rows(Other(c))[1]>>, 0)}

heap == [base |-> base, own |-> own]
\* The dict a call on c writes to, and the calls that have written to each
\* dict since it was last empty. Model's own dict is never reset.
Budget ==
    DictGet(calls, "base", 0) + DictGet(calls, "users", 0) + DictGet(calls, "posts", 0)
        < MaxCalls

\* A call on class c took effect. Once every class owns its dict nothing
\* reads Model's dict any more, and the state forgets it.
Apply(op, c, eff, n, at) ==
    /\ pc' = at
    /\ base' = IF DOMAIN eff.h.own = Classes THEN EmptyDict ELSE eff.h.base
    /\ own' = eff.h.own
    /\ conn' = eff.conn
    /\ stmts' = eff.stmts
    /\ result' = [op |-> op, cls |-> c, kind |-> eff.kind, value |-> eff.value]
    /\ calls' = n
    /\ UNCHANGED <<mine, arg, ret>>

\* The counts after a call on c that leaves heap h: the dict the call wrote
\* to has one call more, and a dict that the call left empty starts afresh.
Counted(c, h) ==
    LET target == IF c \in DOMAIN own THEN c ELSE "base"
        wrote == DictSet(calls, target, DictGet(calls, target, 0) + 1)
    IN  [d \in DOMAIN wrote |->
            IF d \in DOMAIN h.own /\ h.own[d] = EmptyDict THEN 0 ELSE wrote[d]]

Builder(op, c, eff) == pc = "idle" /\ Budget /\ Apply(op, c, eff, Counted(c, eff.h), "idle")
Built(op, c, h) == Builder(op, c, Return(h, ClsV(c)))
\* A terminal on a class that owns its dict and resets it is always possible;
\* one that writes to Model's dict, or leaves the description in place, is a
\* write like a builder call.
Terminal(op, c, eff) ==
    /\ pc = "idle"
    /\ (c \in DOMAIN eff.h.own /\ eff.h.own[c] = EmptyDict) \/ Budget
    /\ Apply(op, c, eff, Counted(c, eff.h), "returned")

InsertData == {<<Item("id", IntV(1))>>, <<Item("title", StrV("t"))>>}

Where(c) ==
    \E a \in {<<IntV(1), NoneV>>, <<NoneV, NoneV>>} :
        Builder("where", c, where(heap, c, "a", a[1], a[2]))
WhereDict(c) ==
    \E d \in {<<>>, <<Item("user_id", IntV(1))>>} :
        Built("where", c, where_dict(heap, c, d))
WithTrashed(c) == Built("with_trashed", c, with_trashed(heap, c))
Limit(c) == Built("limit", c, limit(heap, c, IntV(2), IntV(0)))
Select(c) == Built("select", c, select(heap, c, <<"id">>))
HasMany(c) ==
    /\ c = "users"
    /\ \E cb \in {"none", "published"} :
         Built("has_many", c, has_many(heap, c, "posts", "user_id", "id", "", cb))
HasOne(c) ==
    /\ c = "users"
    /\ Built("has_one", c, has_one(heap, c, "posts", "user_id", "id", "post", "none"))
BelongsTo(c) ==
    /\ c = "posts"
    /\ Built("belongs_to", c, belongs_to(heap, c, "users", "user_id", "id", "user", "none"))

Get(c) ==
    \E m \in Envs(c), r \in RelEnvs(heap, c) :
        Terminal("get", c, get(heap, c, [main |-> m, rel |-> r]))
First(c) ==
    \E m \in Envs(c), r \in RelEnvs(heap, c) :
        Terminal("first", c, first(heap, c, [main |-> m, rel |-> r]))
Find(c) ==
    \E m \in Envs(c), r \in RelEnvs(heap, c) :
        Terminal("find", c, find(heap, c, IntV(1), [main |-> m, rel |-> r]))
Count(c) ==
    \E m \in CountEnvs, r \in RelEnvs(heap, c) :
        Terminal("count", c, count(heap, c, [main |-> m, rel |-> r]))
Insert(c) ==
    \E d \in InsertData, m \in WriteEnvs :
        Terminal("insert", c, insert(heap, c, d, [main |-> m, rel |-> NoEnv]))
Update(c) ==
    \E d \in InsertData, m \in WriteEnvs :
        Terminal("update", c, update(heap, c, d, [main |-> m, rel |-> NoEnv]))
Delete(c) ==
    \E m \in WriteEnvs : Terminal("delete", c, delete(heap, c, [main |-> m, rel |-> NoEnv]))
Restore(c) ==
    \E m \in WriteEnvs : Terminal("restore", c, restore(heap, c, [main |-> m, rel |-> NoEnv]))
ForceDelete(c) ==
    \E m \in WriteEnvs :
        Terminal("force_delete", c, force_delete(heap, c, [main |-> m, rel |-> NoEnv]))
RawQuery(c) ==
    \E m \in WriteEnvs :
        Terminal("raw_query", c, raw_query(heap, c, [main |-> m, rel |-> NoEnv]))
Paginate(c) ==
    \E page \in {0, 2}, m \in {Failing, Env("ok", <<Rows(c)[1]>>, 0)}, k \in CountEnvs,
       r \in RelEnvs(heap, c) :
        Terminal("paginate", c,
                 paginate(heap, c, page, 2, [main |-> m, rel |-> r, count |-> k]))

\* The caller has the result in hand and goes on to its next call.
Resume ==
    /\ pc = "returned"
    /\ pc' = "idle"
    /\ conn' = <<>>
    /\ stmts' = <<>>
    /\ result' = [op |-> "resume"]
    /\ UNCHANGED <<base, own, calls, mine, arg, ret>>

Init ==
    /\ InitModel
    /\ pc = "idle"
    /\ mine = EmptyDict
    /\ arg = [table |-> "", query |-> EmptyDict]
    /\ ret = [done |-> FALSE]

Next ==
    \/ Resume
    \/ \E c \in Classes :
       \/ Where(c) \/ WhereDict(c) \/ WithTrashed(c) \/ Limit(c) \/ Select(c)
       \/ HasMany(c) \/ HasOne(c) \/ BelongsTo(c)
       \/ Get(c) \/ First(c) \/ Find(c) \/ Count(c)
       \/ Insert(c) \/ Update(c) \/ Delete(c) \/ Restore(c) \/ ForceDelete(c)
       \/ RawQuery(c) \/ Paginate(c)

Spec == Init /\ [][Next]_vars

(***************************************************************************)
(* Properties of the calls                                                 *)
(***************************************************************************)
Returned == pc = "returned"
Occurs(e) == \E i \in 1..Len(conn) : conn[i] = e
HasWhere(sql) == \E i \in 1..Len(sql) : sql[i] = "WHERE"
Automatic == Clause("deleted_at", "IS", StrV("NULL"), "AND")

\* C2: whenever update, delete, restore or force_delete has returned or
\* raised, every UPDATE or DELETE statement it handed to the connection has a
\* WHERE clause; a terminal that failed before executing handed over none.
C2_NoWriteWithoutWhere ==
    (Returned /\ result.op \in {"update", "delete", "restore", "force_delete"}) =>
        \A i \in 1..Len(stmts) :
            stmts[i].action \in {"update", "delete"} => HasWhere(stmts[i].sql)

Resetting == {"get", "first", "find", "count", "insert", "update", "delete", "force_delete"}

\* The COUNT(*) statement of paginate.
CountStatement(s) == DictGet(s.query, "select", <<>>) = <<"COUNT(*) AS total">>
Rewritten == {"where", "limit", "offset", "select"}
Added(clauses) == SelectSeq(clauses, LAMBDA w : w # Automatic)

\* C3: after get, first, find, count, insert, update, delete or force_delete
\* has run a statement, the description the class reads next is empty, so the
\* next chain starts from nothing; the data fetch of paginate alone does not
\* reset it: when the count statement follows the data statement directly,
\* it is compiled from the same description, but for the select, limit and
\* offset paginate sets and the automatic clause it removes and adds again.
C3_DescriptionResetAfterTerminal ==
    /\ (Returned /\ result.op \in Resetting /\ stmts # <<>>) =>
           /\ result.cls \in DOMAIN own
           /\ Q(heap, result.cls) = EmptyDict
    /\ (Returned /\ result.op = "paginate" /\ Len(stmts) = 2
           /\ stmts[2].cls = result.cls /\ CountStatement(stmts[2])) =>
           /\ Added(stmts[2].where) = Added(stmts[1].where)
           /\ \A k \in (DOMAIN stmts[1].query) \ Rewritten :
                  /\ k \in DOMAIN stmts[2].query
                  /\ stmts[2].query[k] = stmts[1].query[k]

\* A get at the end of a chain that had added a clause and a limit, and a
\* description that is empty afterwards.
C3_Witness ==
    /\ Returned /\ result.op = "get" /\ stmts # <<>>
    /\ {"where", "limit", "offset"} \subseteq DOMAIN stmts[1].query
    /\ \E i \in 1..Len(stmts[1].where) : stmts[1].where[i] # Automatic
    /\ Q(heap, result.cls) = EmptyDict

ConnectionFailed == \E s \in Steps : Occurs("raise:" \o s)

ReturningRows == {"get", "first", "find", "insert", "update", "delete", "restore",
                  "force_delete", "raw_query"}

\* C5: a terminal during which the connection layer raised, for its own
\* statement, a relation's or the count of paginate, does not raise; and
\* when it is one that returns rows, a row or a write result, it returns None.
C5_ConnectionFailureReturnsNone ==
    (Returned /\ ConnectionFailed) =>
        /\ result.kind = "return"
        /\ result.op \in ReturningRows => result.value = NoneV

\* The description delete (without soft delete) and force_delete compile.
DeleteDescription(c) == DictSet(Q(heap, c), "action", "delete")
DeleteCall(c) ==
    /\ pc = "idle" /\ pc' = "returned" /\ result'.cls = c
    /\ \/ result'.op = "force_delete"
       \/ result'.op = "delete" /\ ~soft_delete(c)
Rejected(c) == ~query_builder(table(c), DeleteDescription(c)).ok

C8_EveryParentCarriesRelation ==
    (Returned /\ result.op = "get" /\ result.kind = "return"
        /\ result.value.t = "rows" /\ stmts # <<>>) =>
        LET relations == DictGet(stmts[1].query, "relations", <<>>)
            rows == result.value.rows
        IN  \A i \in 1..Len(rows), j \in 1..Len(relations) :
                LET row == rows[i]
                    relation == relations[j]
                    many == relation.type = "hasMany"
                    main_field == IF relation.type = "belongsTo"
                                  THEN relation.foreignKey ELSE relation.localKey
                    related_field == IF relation.type = "belongsTo"
                                     THEN relation.localKey ELSE relation.foreignKey
                IN  /\ relation.identifier \in DOMAIN row
                    /\ IF many
                       THEN /\ row[relation.identifier].t = "list"
                            /\ \A k \in 1..Len(row[relation.identifier].l) :
                                   row[relation.identifier].l[k][related_field] = row[main_field]
                       ELSE \/ row[relation.identifier] = NoneV
                            \/ /\ row[relation.identifier].t = "row"
                               /\ row[relation.identifier].row[related_field] = row[main_field]
                    /\ row[main_field] = NoneV =>
                           row[relation.identifier] = IF many THEN ListV(<<>>) ELSE NoneV

\* The statements paginate compiled for its own class: data, then count.
PageStatements == SelectSeq(stmts, LAMBDA s : s.cls = result.cls)
Filters(clauses) == Len(SelectSeq(clauses, LAMBDA w : w = Automatic))

\* C9: when paginate on a soft-delete class without with_trashed has
\* compiled its data and its count statement, both have the same list of
\* WHERE clauses with the automatic clause exactly once, and when paginate
\* has returned the class's description has no WHERE clause.
C9_SameWhereForDataAndCount ==
    (Returned /\ result.op = "paginate" /\ soft_delete(result.cls)
        /\ Len(PageStatements) = 2
        /\ ~TruthyKey(PageStatements[1].query, "with_trashed")) =>
        /\ PageStatements[1].where = PageStatements[2].where
        /\ Filters(PageStatements[1].where) = 1
        /\ Filters(PageStatements[2].where) = 1
        /\ result.kind = "return" => ~NonEmpty(Q(heap, result.cls), "where")

(***************************************************************************)
(* SpecPaginate: paginate on a new class, for each total, page size and    *)
(* page number.                                                            *)
(***************************************************************************)
MaxTotal == 25
MaxPerPage == 10
MaxPage == 3

InitPaginate ==
    /\ InitModel
    /\ pc = "idle"
    /\ mine = EmptyDict
    /\ arg \in [total : 0..MaxTotal, per_page : 0..MaxPerPage, page : 0..MaxPage]
    /\ ret = [done |-> FALSE]

PaginateUsers ==
    /\ pc = "idle"
    /\ Apply("paginate", "users",
             paginate(heap, "users", arg.page, arg.per_page,
                      [main |-> Env("ok", <<Rows("users")[1]>>, 0), rel |-> NoEnv,
                       count |-> Env("ok", <<>>, arg.total)]),
             calls, "returned")

\* Before paginate the caller may have set a limit, 0 included.
LimitUsers ==
    /\ ~Has(Q(heap, "users"), "limit")
    /\ \E l \in {0, 2} : Built("limit", "users", limit(heap, "users", IntV(l), IntV(0)))

SpecPaginate == InitPaginate /\ [][LimitUsers \/ PaginateUsers]_vars

\* The largest n with n * per_page <= total.
Floor(total, per_page) ==
    CHOOSE n \in 0..total : n * per_page <= total /\ total < (n + 1) * per_page

InRange == arg.per_page >= 1 /\ arg.page >= 1

\* C10: for a total >= 0, a per_page >= 1 and a page >= 1 paginate returns
\* pages = floor(total / per_page), next_page = page + 1 if page < pages and
\* None otherwise, prev_page = page - 1 if 1 < page <= pages and None
\* otherwise.
C10_PageArithmetic ==
    (Returned /\ InRange) =>
        /\ result.kind = "return" /\ result.value.t = "page"
        /\ result.value.total = arg.total
        /\ result.value.page = arg.page /\ result.value.per_page = arg.per_page
        /\ result.value.pages = Floor(arg.total, arg.per_page)
        /\ result.value.next_page =
               IF arg.page < Floor(arg.total, arg.per_page) THEN IntV(arg.page + 1) ELSE NoneV
        /\ result.value.prev_page =
               IF 1 < arg.page /\ arg.page <= Floor(arg.total, arg.per_page)
               THEN IntV(arg.page - 1) ELSE NoneV

\* 25 rows, 10 per page, page 2: 2 pages, no next page, previous page 1.
C10_Witness ==
    /\ Returned /\ arg = [total |-> 25, per_page |-> 10, page |-> 2]
    /\ result.value.pages = 2
    /\ result.value.next_page = NoneV
    /\ result.value.prev_page = IntV(1)

\* The page size paginate works with: the argument, or below 1 the limit
\* set before, or without one the class's per_page.
EffectivePerPage ==
    IF arg.per_page < 1
    THEN DictGet(Q(heap, "users"), "limit", IntV(cls_per_page("users")))
    ELSE IntV(arg.per_page)
DivisionByZero == ErrorV("ZeroDivisionError: division by zero")

\* C11: a paginate whose effective per_page is 0 raises an error that is not
\* a division by zero, and no statement has been sent to the connection.
C11_ZeroPerPageIsRejected ==
    [][(pc = "idle" /\ pc' = "returned" /\ result'.op = "paginate"
           /\ EffectivePerPage = IntV(0)) =>
          /\ result'.kind = "raise"
          /\ result'.value # DivisionByZero
          /\ stmts' = <<>>]_vars

(***************************************************************************)
(* SpecRequests: two logical requests build and run a query on the same    *)
(* class; nothing serializes their calls.                                  *)
(***************************************************************************)
MaxClauses == 2
Requests == {"r1", "r2"}

InitRequests ==
    /\ InitModel
    /\ pc = [r \in Requests |-> "start"]
    /\ mine = [r \in Requests |-> <<>>]
    /\ arg \in [cls : Classes]
    /\ ret = [done |-> FALSE]

\* Request r calls where(field, n) for its n-th clause.
RequestWhere(r) ==
    /\ pc[r] \in {"start", "building"}
    /\ Len(mine[r]) < MaxClauses
    /\ LET Field(x) == IF x = "r1" THEN "a" ELSE "b"
           value == IntV(Len(mine[r]) + 1)
           eff == where(heap, arg.cls, Field(r), value, NoneV)
       IN  /\ base' = eff.h.base
           /\ own' = eff.h.own
           /\ mine' = [mine EXCEPT ![r] = Append(@, Clause(Field(r), "=", value, "AND"))]
           /\ result' = [op |-> "where", by |-> r, cls |-> arg.cls,
                         kind |-> eff.kind, value |-> eff.value]
    /\ pc' = [pc EXCEPT ![r] = "building"]
    /\ stmts' = <<>>
    /\ conn' = <<>>
    /\ UNCHANGED <<calls, arg, ret>>

\* Request r calls get().
RequestGet(r) ==
    /\ pc[r] = "building"
    /\ \E m \in Envs(arg.cls) :
         LET eff == get(heap, arg.cls, [main |-> m, rel |-> NoEnv])
         IN  /\ base' = eff.h.base
             /\ own' = eff.h.own
             /\ stmts' = eff.stmts
             /\ conn' = eff.conn
             /\ result' = [op |-> "get", by |-> r, cls |-> arg.cls,
                           kind |-> eff.kind, value |-> eff.value]
    /\ pc' = [pc EXCEPT ![r] = "done"]
    /\ UNCHANGED <<calls, mine, arg, ret>>

SpecRequests == InitRequests /\ [][\E r \in Requests : RequestWhere(r) \/ RequestGet(r)]_vars

\* C4: the statement a request's get executes has, besides the automatic
\* soft-delete clause, exactly the clauses that request added, in order.
C4_StatementHasOwnClausesOnly ==
    \A r \in Requests :
        (result.op = "get" /\ result.by = r /\ stmts # <<>>) =>
            SelectSeq(stmts[1].where, LAMBDA w : w # Automatic) = mine[r]

(***************************************************************************)
(* SpecExecute: Model._execute line by line; every call on the connection  *)
(* or the cursor either succeeds or raises.                                *)
(***************************************************************************)
InitExecute ==
    /\ InitModel
    /\ pc = "get_connection"
    /\ mine = EmptyDict
    /\ arg \in [action : {"select", "insert", "update", "delete", "raw"},
                rows : RowLists("users")]
    /\ ret = [kind |-> "none"]

Did(event, at) ==
    /\ conn' = Append(conn, event)
    /\ pc' = at
    /\ UNCHANGED <<base, own, calls, stmts, result, mine, arg>>

\* A call that raises outside the try block leaves _execute at once; one
\* that raises inside it goes through the finally block first.

\* Line 53.
GetConnection ==
    /\ pc = "get_connection"
    /\ \/ Did("acquire", "cursor") /\ UNCHANGED ret
       \/ Did("raise:acquire", "raised") /\ ret' = [kind |-> "raise", value |-> ErrorV("acquire")]

\* Line 54.
Cursor ==
    /\ pc = "cursor"
    /\ \/ Did("cursor", "execute") /\ UNCHANGED ret
       \/ Did("raise:cursor", "raised") /\ ret' = [kind |-> "raise", value |-> ErrorV("cursor")]

\* Lines 57, 61 and 65.
Execute ==
    /\ pc = "execute"
    /\ \/ Did("execute", IF arg.action \in Writes THEN "commit" ELSE "fetchall")
          /\ UNCHANGED ret
       \/ Did("raise:execute", "cursor.close")
          /\ ret' = [kind |-> "raise", value |-> ErrorV("execute")]

\* Lines 58-59 and 62-63.
Commit ==
    /\ pc = "commit"
    /\ \/ Did("commit", "cursor.close")
          /\ ret' = [kind |-> "return",
                     value |-> IF arg.action = "insert" THEN DictV("insert_id" :> IntV(1))
                               ELSE DictV("affected_rows" :> IntV(1))]
       \/ Did("raise:commit", "cursor.close")
          /\ ret' = [kind |-> "raise", value |-> ErrorV("commit")]

\* Lines 66-67.
Fetchall ==
    /\ pc = "fetchall"
    /\ \/ Did("fetchall", "cursor.close")
          /\ ret' = [kind |-> "return", value |-> RowsV(arg.rows)]
       \/ Did("raise:fetchall", "cursor.close")
          /\ ret' = [kind |-> "raise", value |-> ErrorV("fetchall")]

\* Line 69.
CloseCursor ==
    /\ pc = "cursor.close"
    /\ Did("cursor.close", "connection.close")
    /\ UNCHANGED ret

\* Line 70, then the return or the exception that was pending.
CloseConnection ==
    /\ pc = "connection.close"
    /\ Did("close", IF ret.kind = "raise" THEN "raised" ELSE "returned")
    /\ UNCHANGED ret

SpecExecute == InitExecute /\
    [][\/ GetConnection \/ Cursor \/ Execute \/ Commit \/ Fetchall
       \/ CloseCursor \/ CloseConnection]_vars

Position(e) == CHOOSE i \in 1..Len(conn) : conn[i] = e

\* C7: when _execute has returned or raised, a connection it acquired has
\* been closed; and after a successful insert, update or delete the commit
\* came after the execute and before the close.
C7_EveryConnectionReleased ==
    (pc \in {"returned", "raised"}) =>
        /\ Occurs("acquire") => Occurs("close")
        /\ (pc = "returned" /\ arg.action \in Writes) =>
               /\ Occurs("execute") /\ Occurs("commit")
               /\ Position("execute") < Position("commit")
               /\ Position("commit") < Position("close")

(***************************************************************************)
(* columns as a function of its arguments                                  *)
(***************************************************************************)
MaxKeys == 3
ColumnKeys == {"id", "title", "secret"}
\* Every dict of at most MaxKeys items, in every insertion order.
ColumnObjects ==
    {o \in SeqsUpTo({Item(k, v) : k \in ColumnKeys, v \in {IntV(1), NoneV}}, MaxKeys) :
        \A i, j \in 1..Len(o) : o[i].k = o[j].k => i = j}

InitColumns ==
    /\ InitModel
    /\ pc = "idle"
    /\ mine = EmptyDict
    /\ arg \in [obj : ColumnObjects, fillable : SUBSET ColumnKeys, guarded : SUBSET ColumnKeys]
    /\ ret = [done |-> FALSE]

FilterColumns ==
    /\ ~ret.done
    /\ ret' = [done |-> TRUE, out |-> columns(arg.obj, arg.fillable, arg.guarded)]
    /\ UNCHANGED <<base, own, calls, conn, stmts, result, pc, mine, arg>>

SpecColumns == InitColumns /\ [][FilterColumns]_vars

Kept(k) ==
    /\ (arg.fillable = {} \/ k \in arg.fillable)
    /\ (arg.guarded = {} \/ k \notin arg.guarded)
ValueOf(items, k) == {items[i].v : i \in {j \in 1..Len(items) : items[j].k = k}}

\* C12: the result of columns is a dict whose keys are exactly the keys of obj
\* that pass the fillable and the guarded test, each with the value it has in
\* obj; with fillable and guarded both empty the result is obj.
C12_ColumnsKeepsAllowedKeys ==
    ret.done =>
        /\ ret.out \in ColumnObjects
        /\ ItemKeys(ret.out) = {k \in ItemKeys(arg.obj) : Kept(k)}
        /\ \A k \in ItemKeys(ret.out) : ValueOf(ret.out, k) = ValueOf(arg.obj, k)
        /\ (arg.fillable = {} /\ arg.guarded = {}) => ret.out = arg.obj

\* A key dropped by fillable, a key dropped by guarded and a key kept.
C12_Witness ==
    /\ ret.done
    /\ \E k \in ItemKeys(arg.obj) : k \notin arg.fillable /\ arg.fillable # {}
    /\ \E k \in ItemKeys(arg.obj) : k \in arg.guarded /\ (arg.fillable = {} \/ k \in arg.fillable)
    /\ ret.out # <<>>
    /\ \E i \in 1..Len(ret.out) : ret.out[i].v = NoneV

(***************************************************************************)
(* The SET list of an insert or update                                     *)
(***************************************************************************)
Writing ==
    /\ Compiled
    /\ ~Has(arg.query, "raw_query")
    /\ DictGet(arg.query, "action", "select") \in {"insert", "update"}
SetAt(sql) == CHOOSE p \in 1..Len(sql) : sql[p] = "SET" /\ \A q \in 1..(p - 1) : sql[q] # "SET"
Rendered(v) ==
    CASE v = NoneV -> "NULL"
      [] v = BoolV(TRUE) -> "1"
      [] v = BoolV(FALSE) -> "0"
      [] OTHER -> "%s"
\* The i-th entry starts 4 * (i - 1) tokens after SET: name, =, rendering,
\* and a comma unless it is the last.
EntryRendered(sql, p, data, i) ==
    LET at == p + 4 * (i - 1)
    IN  /\ Len(sql) >= at + 3
        /\ SubSeq(sql, at + 1, at + 3) = <<data[i].k, "=", Rendered(data[i].v)>>
        /\ IF i < Len(data) THEN sql[at + 4] = ","
           ELSE Len(sql) = at + 3 \/ sql[at + 4] \notin {",", "="}
BoundData(data) ==
    LET bound == SelectSeq(data, LAMBDA it : it.v \notin {NoneV, BoolV(TRUE), BoolV(FALSE)})
    IN  [i \in 1..Len(bound) |-> bound[i].v]
SetRendered(sql, bindings, data) ==
    /\ \E p \in 1..Len(sql) : sql[p] = "SET"
    /\ \A i \in 1..Len(data) : EntryRendered(sql, SetAt(sql), data, i)
    /\ Len(bindings) >= Len(BoundData(data))
    /\ SubSeq(bindings, 1, Len(BoundData(data))) = BoundData(data)
NameAndActive == <<Item("name", StrV("x")), Item("active", BoolV(TRUE))>>

\* C13: a compiled insert or update has after SET one `col = value` entry per
\* data item in mapping order, None written as NULL and a boolean as 1 or 0,
\* both unbound, any other value as a placeholder whose value is bound, in
\* order, before every other binding; the insert of {name: 'x', active: true}
\* into users is INSERT INTO users SET name = %s, active = 1 with ['x'].
C13_SetListRendering ==
    Writing =>
        /\ SetRendered(ret.out.sql, ret.out.bindings, arg.query["data"])
        /\ arg.query = ("action" :> "insert") @@ ("data" :> NameAndActive) =>
             ret.out = [ok |-> TRUE,
                        sql |-> <<"INSERT INTO", "users", "SET",
                                  "name", "=", "%s", ",", "active", "=", "1">>,
                        bindings |-> <<StrV("x")>>]

\* An update of a None, a false and a number, followed by a WHERE with its
\* own bindings.
C13_Witness ==
    /\ Writing
    /\ arg.query["action"] = "update"
    /\ \E i, j, k \in 1..Len(arg.query["data"]) :
         /\ arg.query["data"][i].v = NoneV
         /\ arg.query["data"][j].v = BoolV(FALSE)
         /\ arg.query["data"][k].v = IntV(2)
    /\ Len(ret.out.bindings) > Len(BoundData(arg.query["data"]))

(***************************************************************************)
(* The clauses of a compiled WHERE                                         *)
(***************************************************************************)
Filtering ==
    /\ Compiled
    /\ ~Has(arg.query, "raw_query")
    /\ NonEmpty(arg.query, "where")
IsRaw(c) == Has(c, "raw")
IsList(c) == ~IsRaw(c) /\ c.operator \in {"IN", "NOT IN"}
IsInline(c) == ~IsRaw(c) /\ c.operator \in {"IS", "IS NOT"}
\* The values a clause contributes to the bindings.
ClauseValues(c) ==
    IF IsRaw(c) \/ IsInline(c) THEN <<>>
    ELSE IF IsList(c) THEN c.value.l
    ELSE <<c.value>>
\* The number of tokens a clause takes in the text: its chain word unless it
\* is the first, then the raw text, or field, operator and the value, a list
\* being written between parentheses with commas.
ClauseWidth(c, leading) ==
    (IF leading THEN 0 ELSE 1)
        + (IF IsRaw(c) THEN 1
           ELSE IF IsList(c)
                THEN 4 + Len(c.value.l)
                       + (IF Len(c.value.l) > 0 THEN Len(c.value.l) - 1 ELSE 0)
           ELSE 3)
RECURSIVE ClauseEnd(_, _)
ClauseEnd(clauses, i) ==
    IF i = 0 THEN 0 ELSE ClauseEnd(clauses, i - 1) + ClauseWidth(clauses[i], i = 1)
FirstAt(sql, word) == CHOOSE p \in 1..Len(sql) : sql[p] = word /\ \A q \in 1..(p - 1) : sql[q] # word
\* The tokens the i-th clause takes after WHERE.
ClauseText(sql, clauses, i) ==
    SubSeq(sql, FirstAt(sql, "WHERE") + ClauseEnd(clauses, i - 1) + 1,
                FirstAt(sql, "WHERE") + ClauseEnd(clauses, i))
CountOf(text, word) == Cardinality({p \in 1..Len(text) : text[p] = word})
\* The bindings between those of SET and those of LIMIT and OFFSET.
WhereBindings(query, bindings) ==
    LET before == IF DictGet(query, "action", "select") \in {"insert", "update"}
                  THEN Len(BoundData(query["data"])) ELSE 0
    IN  SubSeq(bindings, before + 1, Len(bindings) - Len(ExpectedLimit(query)))

\* C14: in a compiled WHERE the text of an IN or NOT IN clause has one
\* placeholder per element of its list, that of an IS, IS NOT or raw clause has
\* none and its value is written inline, that of any other clause has exactly
\* one; the WHERE bindings are the list elements and the single values of the
\* clauses, in order, and nothing else.
C14_WhereClauseBindings ==
    Filtering =>
        LET clauses == arg.query["where"]
        IN  /\ \E p \in 1..Len(ret.out.sql) : ret.out.sql[p] = "WHERE"
            /\ \A i \in 1..Len(clauses) :
                 /\ IsList(clauses[i]) =>
                      CountOf(ClauseText(ret.out.sql, clauses, i), "%s")
                          = Len(clauses[i].value.l)
                 /\ IsRaw(clauses[i]) =>
                      CountOf(ClauseText(ret.out.sql, clauses, i), "%s") = 0
                 /\ IsInline(clauses[i]) =>
                      /\ CountOf(ClauseText(ret.out.sql, clauses, i), "%s") = 0
                      /\ ClauseText(ret.out.sql, clauses, i)[ClauseWidth(clauses[i], i = 1)]
                             = clauses[i].value.s
                 /\ ~(IsRaw(clauses[i]) \/ IsList(clauses[i]) \/ IsInline(clauses[i])) =>
                      CountOf(ClauseText(ret.out.sql, clauses, i), "%s") = 1
            /\ WhereBindings(arg.query, ret.out.bindings)
                   = Flatten([i \in 1..Len(clauses) |-> ClauseValues(clauses[i])])

\* An IN list of two elements after an IS clause, in an update that binds a
\* SET value and a LIMIT.
C14_Witness ==
    /\ Filtering
    /\ Len(arg.query["where"]) = 2
    /\ IsInline(arg.query["where"][1])
    /\ IsList(arg.query["where"][2]) /\ Len(arg.query["where"][2].value.l) = 2
    /\ DictGet(arg.query, "action", "select") = "update"
    /\ Len(ExpectedLimit(arg.query)) > 0
    /\ Len(ret.out.bindings) > 3

(***************************************************************************)
(* Validation of the description                                           *)
(***************************************************************************)
Action == DictGet(arg.query, "action", "select")
\* The descriptions the compiler is to refuse.
Invalid ==
    \/ Action \in {"insert", "update"} /\ ~NonEmpty(arg.query, "data")
    \/ Action = "delete" /\ ~NonEmpty(arg.query, "where")
    \/ Action \notin {"select", "insert", "update", "delete"}
Failed == ~ret.out.ok /\ ~Has(ret.out, "sql") /\ Has(ret.out, "error")

\* C15: query_builder fails and returns no SQL for an insert or update without
\* data, a delete without where and an unknown action; a select never fails.
C15_InvalidDescriptionFails ==
    ret.done =>
        /\ Invalid => Failed
        /\ Action = "select" => ret.out.ok

\* C15 for descriptions without a raw query; one with a raw query is returned
\* verbatim with no bindings, whatever its action, data and where are.
C15_InvalidDescriptionFailsUnlessRaw ==
    ret.done =>
        IF Has(arg.query, "raw_query")
        THEN ret.out = [ok |-> TRUE, sql |-> <<arg.query["raw_query"]>>, bindings |-> <<>>]
        ELSE /\ Invalid => Failed
             /\ Action = "select" => ret.out.ok

\* A delete whose where list is empty, refused.
C15_Witness ==
    /\ ret.done
    /\ ~Has(arg.query, "raw_query")
    /\ Action = "delete" /\ Has(arg.query, "where") /\ arg.query["where"] = <<>>
    /\ Failed

(***************************************************************************)
(* insert and update with nothing left to write: SpecWrite draws a class,  *)
(* a terminal and the caller's data, lets builder calls accumulate clauses *)
(* and makes the call.                                                     *)
(***************************************************************************)
InitWrite ==
    LET WriteData ==
            { <<>>,
              <<Item("id", IntV(1))>>,
              <<Item("name", StrV("x"))>>,
              <<Item("id", IntV(1)), Item("title", StrV("t"))>>,
              <<Item("title", StrV("t"))>> }
    IN  /\ InitModel
        /\ pc = "idle"
        /\ mine = EmptyDict
        /\ arg \in [cls : Classes, op : {"insert", "update"}, data : WriteData]
        /\ ret = [done |-> FALSE]

WriteCall ==
    \E m \in WriteEnvs :
        IF arg.op = "insert"
        THEN Terminal("insert", arg.cls, insert(heap, arg.cls, arg.data, [main |-> m, rel |-> NoEnv]))
        ELSE Terminal("update", arg.cls, update(heap, arg.cls, arg.data, [main |-> m, rel |-> NoEnv]))

SpecWrite == InitWrite /\
    [][\/ Resume
       \/ Where(arg.cls) \/ WhereDict(arg.cls) \/ WithTrashed(arg.cls) \/ Limit(arg.cls)
       \/ WriteCall]_vars

\* The key is removed by the class's fillable or guarded list.
Discarded(c, k) ==
    \/ fillable(c) # {} /\ k \notin fillable(c)
    \/ guarded(c) # {} /\ k \in guarded(c)
\* insert or update has returned or raised and none of the caller's keys
\* passes the class's filter.
NothingToWrite ==
    /\ Returned
    /\ result.op \in {"insert", "update"}
    /\ \A i \in 1..Len(arg.data) : Discarded(arg.cls, arg.data[i].k)

\* C16: an insert or update whose data is empty after the fillable/guarded
\* filter returns None, and neither a statement nor any other call has
\* reached the connection, whatever the description held before.
C16_EmptyDataReturnsNone ==
    NothingToWrite =>
        /\ result.kind = "return" /\ result.value = NoneV
        /\ stmts = <<>>
        /\ conn = <<>>

\* An update with only guarded data after a where call.
C16_Witness ==
    /\ NothingToWrite
    /\ result.op = "update"
    /\ arg.data # <<>>
    /\ NonEmpty(Q(heap, result.cls), "where")
    /\ result.value = NoneV

(***************************************************************************)
(* Hidden fields: SpecHidden runs the select terminals on both classes     *)
(* with relations, one of them identified by the name of a hidden field.   *)
(***************************************************************************)
HasOneNamed ==
    /\ pc = "idle"
    /\ \E name \in {"post", "secret"} :
        Built("has_one", "users", has_one(heap, "users", "posts", "user_id", "id", name, "none"))

SpecHidden == Init /\
    [][\/ Resume
       \/ HasOneNamed \/ HasMany("users") \/ BelongsTo("posts")
       \/ \E c \in Classes : Get(c) \/ First(c) \/ Find(c) \/ Paginate(c)]_vars

\* The rows a terminal returned, and the related rows a row carries.
TopRows(v) ==
    CASE v.t = "rows" -> {v.rows[i] : i \in 1..Len(v.rows)}
      [] v.t = "row" -> {v.row}
      [] v.t = "page" -> IF v.data.t = "rows"
                         THEN {v.data.rows[i] : i \in 1..Len(v.data.rows)} ELSE {}
      [] OTHER -> {}
Carried(row) ==
    UNION {CASE row[k].t = "row" -> {row[k].row}
             [] row[k].t = "list" -> {row[k].l[i] : i \in 1..Len(row[k].l)}
             [] OTHER -> {} : k \in DOMAIN row}
Selected ==
    /\ Returned
    /\ result.op \in {"get", "first", "find", "paginate"}
    /\ result.kind = "return"

ParentRows(c) ==
    IF c = "users"
    THEN << ("id" :> IntV(1)) @@ ("secret" :> StrV("s")),
            ("id" :> IntV(2)) @@ ("secret" :> StrV("s")),
            ("id" :> NoneV) @@ ("secret" :> StrV("s")) >>
    ELSE << ("id" :> IntV(10)) @@ ("user_id" :> IntV(1)),
            ("id" :> IntV(11)) @@ ("user_id" :> IntV(2)),
            ("id" :> IntV(12)) @@ ("user_id" :> NoneV) >>
\* get answered with no parent, parents without a correlation value, one
\* parent, two parents with the same value, or three parents with two
\* values.
GetRelated(c) ==
    \E rows \in { <<>>,
                  <<ParentRows(c)[3]>>,
                  <<ParentRows(c)[3], ParentRows(c)[3]>>,
                  <<ParentRows(c)[1]>>,
                  <<ParentRows(c)[1], ParentRows(c)[1]>>,
                  ParentRows(c) },
       r \in RelEnvs(heap, c) :
        Terminal("get", c, get(heap, c, [main |-> Env("ok", rows, 0), rel |-> r]))

SpecRelations == Init /\
    [][\/ Resume
       \/ \E c \in Classes : HasMany(c) \/ HasOne(c) \/ BelongsTo(c) \/ GetRelated(c)]_vars

\* The relations of the description that get compiled.
Declared == DictGet(stmts[1].query, "relations", <<>>)
CorrelationField(relation) ==
    IF relation.type = "belongsTo" THEN relation.foreignKey ELSE relation.localKey
RelatedField(relation) ==
    IF relation.type = "belongsTo" THEN relation.localKey ELSE relation.foreignKey
\* A statement that fetches the rows of the relation.
Fetches(s, relation) ==
    /\ s.cls = relation.model
    /\ \E i \in 1..Len(s.where) :
         /\ Has(s.where[i], "operator") /\ s.where[i].operator = "IN"
         /\ s.where[i].field = RelatedField(relation)
GetDone == Returned /\ result.op = "get" /\ stmts # <<>>

\* C18: a get whose description declares R relations hands at most 1 + R
\* statements to the connection, whatever the number of parent rows; when it
\* returned its rows, a relation whose correlation field is null in every
\* parent row has no statement among them.
C18_OneStatementPerRelation ==
    GetDone =>
        /\ Len(stmts) <= 1 + Len(Declared)
        /\ (result.kind = "return" /\ result.value.t = "rows") =>
             \A j \in 1..Len(Declared) :
                 (\A row \in TopRows(result.value) :
                      row[CorrelationField(Declared[j])] = NoneV) =>
                     \A i \in 2..Len(stmts) : ~Fetches(stmts[i], Declared[j])

\* Three parents with two correlation values and two declared relations:
\* three statements.
C18_Witness ==
    /\ GetDone
    /\ result.kind = "return" /\ result.value.t = "rows"
    /\ Cardinality(TopRows(result.value)) = 3
    /\ Len(Declared) = 2
    /\ Len(stmts) = 3

(***************************************************************************)
(* casts as a function of its arguments: SpecCasts draws a row, a cast     *)
(* table and a direction, applies casts, and applies the inbound casts to  *)
(* what the outbound casts returned.                                       *)
(***************************************************************************)
CastTags == {"json", "boolean", "date", "number", "float", "string"}
\* The arguments of casts. The row has field f with a value, or no field f;
\* field g is in no cast table. The table names f with a tag casts knows or
\* with a tag no branch knows, or is empty. The structures are dicts and
\* lists of JSON values with str keys, with a key that is no str, and with a
\* value JSON has no form for.
InitCasts ==
    LET CastTexts ==
            { <<>>, <<"1">>, <<"0">>, <<"0", "1">>, <<"1", "2">>, <<"x">>, <<"1", ".", "5">>,
              <<"5", ".">>, <<".">>, <<"-", "1">>, <<SuperscriptTwo>>,
              <<"{", Quote, "a", Quote, ":", " ", "1", "}">>,
              <<"{", Quote, "a", Quote, ":", "[", "n", "u", "l", "l", ",", "1", ".", "5", "]", "}">>,
              <<"[", "]">>, <<"{", "}">>, <<"n", "u", "l", "l">>, <<"{">>, <<"[", "1", ",", "]">>,
              <<Quote, "s", Quote>>,
              <<"2", "0", "2", "0", "-", "0", "1", "-", "0", "2">>,
              <<"2", "0", "2", "1", "-", "0", "2", "-", "3", "0">> }
        CastStructures ==
            { DictV(<<Item(StrV(<<"a">>), IntV(1))>>),
              DictV(<<>>),
              ListV(<<>>),
              ListV(<<IntV(1), StrV(<<"x">>)>>),
              DictV(<<Item(StrV(<<"a">>), ListV(<<NoneV, BoolV(TRUE), FloatV(15, 1)>>)),
                      Item(StrV(<<"b">>), DictV(<<Item(StrV(<<"c">>), IntV(0 - 1))>>))>>),
              DictV(<<Item(StrV(<<"q">>), StrV(<<Quote, Backslash>>))>>),
              DictV(<<Item(IntV(1), StrV(<<"a">>))>>),
              DictV(<<Item(StrV(<<"a">>), [t |-> "set", l |-> <<IntV(1)>>])>>),
              ListV(<<DateV(2020, 1, 2)>>) }
        CastValues ==
            { NoneV, BoolV(TRUE), BoolV(FALSE), IntV(0), IntV(1), IntV(2), IntV(0 - 1), BigIntV,
              FloatV(15, 1), DateV(2020, 1, 2), DateTimeV(2020, 1, 2) }
                \cup {StrV(s) : s \in CastTexts}
                \cup CastStructures
        CastRows ==
            {("g" :> IntV(7))} \cup {("f" :> v) @@ ("g" :> IntV(7)) : v \in CastValues}
        CastTables ==
            {<<>>} \cup {<<Item("f", tag)>> : tag \in CastTags \cup {"integer"}}
    IN  /\ InitModel
        /\ pc = "idle"
        /\ mine = EmptyDict
        /\ arg \in [obj : CastRows, cast : CastTables, reverse : BOOLEAN]
        /\ ret = [done |-> FALSE, back |-> FALSE]

ApplyCasts ==
    /\ ~ret.done
    /\ ret' = [done |-> TRUE, back |-> FALSE, out |-> casts(arg.obj, arg.cast, arg.reverse)]
    /\ UNCHANGED <<base, own, calls, conn, stmts, result, pc, mine, arg>>

\* casts(casts(obj, cast, True), cast): what was written is read back.
CastBack ==
    /\ ret.done /\ ~ret.back
    /\ arg.reverse
    /\ ret.out.kind = "return"
    /\ ret' = [ret EXCEPT !.back = TRUE, !.out = casts(ret.out.obj, arg.cast, FALSE)]
    /\ UNCHANGED <<base, own, calls, conn, stmts, result, pc, mine, arg>>

SpecCasts == InitCasts /\ [][ApplyCasts \/ CastBack]_vars

Tag == IF arg.cast = <<>> THEN "" ELSE arg.cast[1].v
Cast == ret.done /\ ~ret.back
\* casts was applied to a row that has the field named in the cast table.
CastField == Cast /\ Tag \in CastTags /\ Has(arg.obj, "f")
\* A value of a type the tag does not handle in the direction: json writes
\* dicts and lists and reads text, boolean handles bools, ints and numeric
\* text (None is left aside), date writes dates and reads text, number and
\* float write numbers and read numbers and text.
WrongType(tag, reverse, v) ==
    CASE tag = "json" -> IF reverse THEN v.t \notin {"dict", "list"} ELSE v.t # "str"
      [] tag = "boolean" ->
           /\ v.t \notin {"int", "bigint", "bool", "none"}
           /\ ~(v.t = "str" /\ v.s # <<>>
                   /\ \A i \in 1..Len(v.s) : DigitValue(v.s[i]) >= 0 \/ v.s[i] = SuperscriptTwo)
      [] tag = "date" -> IF reverse THEN v.t \notin {"date", "midnight"} ELSE v.t # "str"
      [] tag \in {"number", "float"} ->
           IF reverse THEN v.t \notin {"int", "bigint", "bool", "float"}
           ELSE v.t \notin {"int", "bigint", "bool", "float", "str"}
      [] OTHER -> FALSE

\* C19: casts returns for every supported tag, value and direction; a value
\* of a type the tag does not handle becomes None; a field the cast table
\* does not name keeps its value, and a table naming an absent field changes
\* nothing.
C19_CastsNeverRaises ==
    (Cast /\ Tag \in CastTags \cup {""}) =>
        /\ ret.out.kind = "return"
        /\ ret.out.obj["g"] = arg.obj["g"]
        /\ DOMAIN ret.out.obj = DOMAIN arg.obj
        /\ (Tag = "" /\ Has(arg.obj, "f")) => ret.out.obj["f"] = arg.obj["f"]
        /\ (CastField /\ WrongType(Tag, arg.reverse, arg.obj["f"])) => ret.out.obj["f"] = NoneV

\* The json field of a dict or list was written and read back.
RoundTrip ==
    /\ ret.done /\ ret.back
    /\ arg.cast = <<Item("f", "json")>>
    /\ Has(arg.obj, "f")
    /\ arg.obj["f"].t \in {"dict", "list"}
Reproduced == ret.out.kind = "return" /\ ret.out.obj["f"] = arg.obj["f"]

\* C20: for a json field every dict or list value is reproduced by the
\* outbound cast followed by the inbound cast.
C20_JsonRoundTrip == RoundTrip => Reproduced

\* A value JSON has an exact form for: None, a bool, a number, a str, a list
\* of such values, a dict of such values under str keys.
RECURSIVE JsonExact(_)
JsonExact(v) ==
    CASE v.t \in {"none", "bool", "int", "bigint", "float", "str"} -> TRUE
      [] v.t = "list" -> \A i \in 1..Len(v.l) : JsonExact(v.l[i])
      [] v.t = "dict" -> \A i \in 1..Len(v.d) : v.d[i].k.t = "str" /\ JsonExact(v.d[i].v)
      [] OTHER -> FALSE

\* C20 for the values JSON has an exact form for; a dict with a key that is
\* no str comes back with the key as text, and a value JSON has no form for
\* is written as None.
C20_JsonRoundTripOfJsonValues ==
    (RoundTrip /\ JsonExact(arg.obj["f"])) => Reproduced

\* A dict holding a list and a dict went out and came back; so did the
\* empty dict's text, which is not empty.
C20_Witness ==
    /\ RoundTrip /\ Reproduced
    /\ arg.obj["f"].t = "dict" /\ Len(arg.obj["f"].d) = 2
    /\ \E i \in 1..2 : arg.obj["f"].d[i].v.t = "list"
    /\ \E i \in 1..2 : arg.obj["f"].d[i].v.t = "dict"

(***************************************************************************)
(* where and or_where as the caller sees them: SpecWhere fixes the         *)
(* arguments of the calls, lets where and or_where append clauses and runs *)
(* the select terminals.                                                   *)
(***************************************************************************)
\* The calls: where(field, operator, value) with a str operator and a value
\* that may be falsy, and where(field, value), whose third argument is the
\* default None.
InitWhere ==
    LET Values == {IntV(5), IntV(0), BoolV(FALSE), StrV(""), ListV(<<>>), StrV("x")}
    IN  /\ InitModel
        /\ pc = "idle"
        /\ mine = EmptyDict
        /\ arg \in [cls : Classes, operator : {StrV(">"), StrV("<>")}, value : Values]
                     \cup [cls : Classes, operator : Values, value : {NoneV}]
        /\ ret = [done |-> FALSE]

WhereCall ==
    /\ pc = "idle"
    /\ \E method \in {"where", "or_where"} :
         Builder(method, arg.cls,
                 IF method = "where"
                 THEN where(heap, arg.cls, "a", arg.operator, arg.value)
                 ELSE or_where(heap, arg.cls, "a", arg.operator, arg.value))

\* The chain ends with a select terminal.
SpecWhere ==
    InitWhere /\ [][WhereCall \/ \E c \in Classes :
                                   Get(c) \/ First(c) \/ Count(c) \/ Paginate(c)]_vars

\* where or or_where has just been called.
Chained == result.op \in {"where", "or_where"}
LastClause ==
    LET clauses == DictGet(Q(heap, arg.cls), "where", <<>>)
    IN  IF clauses = <<>> THEN NoneV ELSE clauses[Len(clauses)]

\* C21: where and or_where with a str field append a clause; given three
\* arguments the clause has that operator and that value, falsy values
\* included, and given two it has operator '=' and the second argument as
\* its value.
C21_WhereKeepsOperatorAndValue ==
    Chained =>
        /\ result.kind = "return"
        /\ LastClause # NoneV
        /\ LastClause.field = "a"
        /\ LastClause.chain = IF result.op = "where" THEN "AND" ELSE "OR"
        /\ IF arg.value # NoneV
           THEN LastClause.operator = arg.operator.s /\ LastClause.value = arg.value
           ELSE LastClause.operator = "=" /\ LastClause.value = arg.operator

(***************************************************************************)
(* Two classes. In Spec has_many is declared through users only and        *)
(* belongs_to through posts only, so the type of a relation tells the      *)
(* class it was added through.                                             *)
(***************************************************************************)
\* The relations of the description the terminal compiled.
TerminalRelations == DictGet(stmts[1].query, "relations", <<>>)
AddedThrough(relation) == IF relation.type = "belongsTo" THEN "posts" ELSE "users"

\* C22: the statement a terminal on a class executes carries nothing that
\* was added through the other class; in particular every relation of its
\* description was declared through the class itself.
C22_NothingFromTheOtherClass ==
    (Returned /\ stmts # <<>>) =>
        /\ stmts[1].cls = result.cls
        /\ \A i \in 1..Len(TerminalRelations) :
             AddedThrough(TerminalRelations[i]) = result.cls

\* The statements a select terminal issued to load its relations: every
\* statement after the one of the terminal itself.
RelationLoads ==
    IF Returned /\ result.op \in {"get", "first", "find"} THEN 2..Len(stmts) ELSE {}

\* C23: the statement that loads a relation is a fresh query on the related
\* model: it carries no limit, offset or with_trashed state from before the
\* relation load, and its text has no LIMIT.
C23_RelationLoadIsFresh ==
    \A i \in RelationLoads :
        /\ ~Has(stmts[i].query, "limit")
        /\ ~Has(stmts[i].query, "offset")
        /\ ~TruthyKey(stmts[i].query, "with_trashed")
        /\ \A j \in 1..Len(stmts[i].sql) : stmts[i].sql[j] # "LIMIT"

\* No step of the connection failed during the call.
NothingFailed == \A i \in 1..Len(conn) : conn[i] \notin {"raise:" \o s : s \in Steps}

\* C24: paginate on a description with relations declared through the class
\* itself, every statement of which the connection ran, returns the page
\* mapping without raising.
C24_PaginateWithRelationsReturns ==
    (Returned /\ result.op = "paginate" /\ stmts # <<>> /\ NothingFailed
        /\ TerminalRelations # <<>>
        /\ \A i \in 1..Len(TerminalRelations) :
             AddedThrough(TerminalRelations[i]) = result.cls)
        => result.kind = "return"

(***************************************************************************)
(* What the database does with a compiled WHERE: AND binds tighter than    *)
(* OR, so the condition is a disjunction of the runs of clauses between    *)
(* two OR tokens.                                                          *)
(***************************************************************************)
\* A row of the table, as the database sees it: column a and deleted_at.
DeletedRows == [a : {IntV(6), StrV("<>")}, deleted_at : {StrV("2024-01-01")}]

Satisfies(row, clause) ==
    LET column == row[clause.field]
    IN  CASE clause.operator = "IS" -> FALSE     \* deleted_at IS NULL, a IS NULL
          [] clause.operator = "=" -> column = clause.value
          [] clause.operator = "<>" -> column # clause.value
          [] clause.operator = ">" ->
                column.t = "int" /\ clause.value.t = "int" /\ column.i > clause.value.i
          [] OTHER -> FALSE

Selects(clauses, row) ==
    \E i \in 1..Len(clauses) :
        /\ i = 1 \/ clauses[i].chain = "OR"
        /\ \A j \in i..Len(clauses) :
             (\A k \in (i + 1)..j : clauses[k].chain = "AND") => Satisfies(row, clauses[j])

\* The select statements a terminal on a soft-delete class compiled while
\* with_trashed was not set.
Filtered ==
    {i \in 1..Len(stmts) :
        /\ Returned /\ result.op \in {"get", "first", "count", "paginate"}
        /\ stmts[i].cls = result.cls /\ soft_delete(result.cls)
        /\ ~TruthyKey(stmts[i].query, "with_trashed")
        /\ \A j \in 1..Len(stmts[i].where) : stmts[i].where[j].field \in {"a", "deleted_at"}}

\* C25: no statement of get, first, count or paginate on a soft-delete class
\* without with_trashed selects a row whose deleted_at is not null, whatever
\* where and or_where clauses came before the terminal.
C25_NoTrashedRowSelected ==
    \A i \in Filtered : \A row \in DeletedRows : ~Selects(stmts[i].where, row)

\* C26: when insert, update, restore or raw_query has returned or raised,
\* with or without a statement sent, the description the class reads next is
\* empty.
C26_DescriptionEmptyAfterEveryTerminal ==
    (Returned /\ result.op \in {"insert", "update", "restore", "raw_query"})
        => Q(heap, result.cls) = EmptyDict

\* The accepted representations of a boolean: a bool, an int, a text of
\* ASCII digits. The value denotes truth when it is True, a nonzero int or a
\* text whose number is not zero.
Representation(v) ==
    \/ v.t \in {"bool", "int"}
    \/ v.t = "str" /\ v.s # <<>> /\ \A i \in 1..Len(v.s) : DigitValue(v.s[i]) >= 0
DenotesTruth(v) ==
    CASE v.t = "bool" -> v.b
      [] v.t = "int" -> v.i # 0
      [] OTHER -> \E i \in 1..Len(v.s) : DigitValue(v.s[i]) > 0

\* C27: under the boolean tag a value in an accepted representation becomes
\* True or False inbound and 1 or 0 outbound, true for a value that denotes
\* truth and false for one that denotes falsehood.
C27_BooleanNormalizes ==
    (CastField /\ Tag = "boolean" /\ Representation(arg.obj["f"])) =>
        /\ ret.out.kind = "return"
        /\ ret.out.obj["f"] =
             IF arg.reverse
             THEN IntV(IF DenotesTruth(arg.obj["f"]) THEN 1 ELSE 0)
             ELSE BoolV(DenotesTruth(arg.obj["f"]))

(***************************************************************************)
(* LIMIT and OFFSET                                                        *)
(***************************************************************************)
\* A structured description that compiled and has an int limit >= 0.
Limited ==
    /\ Compiled
    /\ ~Has(arg.query, "raw_query")
    /\ Has(arg.query, "limit")
    /\ arg.query["limit"].t = "int" /\ arg.query["limit"].i >= 0
EndsWith(s, tail) ==
    Len(s) >= Len(tail) /\ SubSeq(s, Len(s) - Len(tail) + 1, Len(s)) = tail

\* C28: the SQL compiled from a description with an int limit >= 0 ends with
\* LIMIT %s, followed by OFFSET %s exactly when the description has an
\* offset, and the bindings end with the limit, followed by the offset.
C28_LimitAndOffsetBound ==
    Limited =>
        IF Has(arg.query, "offset")
        THEN /\ EndsWith(ret.out.sql, <<"LIMIT", "%s", "OFFSET", "%s">>)
             /\ EndsWith(ret.out.bindings, <<arg.query["limit"], arg.query["offset"]>>)
        ELSE /\ EndsWith(ret.out.sql, <<"LIMIT", "%s">>)
             /\ EndsWith(ret.out.bindings, <<arg.query["limit"]>>)

(***************************************************************************)
(* The chain words of a compiled WHERE                                     *)
(***************************************************************************)
\* The token a clause starts with after its chain word.
Lead(c) == IF IsRaw(c) THEN c.raw ELSE Qualify(arg.table, c.field)
WhereText(sql, clauses) ==
    SubSeq(sql, FirstAt(sql, "WHERE") + 1, FirstAt(sql, "WHERE") + ClauseEnd(clauses, Len(clauses)))
ChainWords(text) == CountOf(text, "AND") + CountOf(text, "OR")

\* C29: in a compiled WHERE the clauses come in the order of the where list;
\* the first starts with its field or raw text, every later one with its own
\* chain word followed by its field or raw text; a WHERE of n clauses has
\* n - 1 chain words.
C29_ChainBeforeAllButFirst ==
    Filtering =>
        LET clauses == arg.query["where"]
            sql == ret.out.sql
        IN  /\ FirstAt(sql, "WHERE") + ClauseEnd(clauses, Len(clauses)) <= Len(sql)
            /\ ClauseText(sql, clauses, 1)[1] = Lead(clauses[1])
            /\ \A i \in 2..Len(clauses) :
                 /\ ClauseText(sql, clauses, i)[1] = clauses[i].chain
                 /\ ClauseText(sql, clauses, i)[2] = Lead(clauses[i])
            /\ ChainWords(WhereText(sql, clauses)) = Len(clauses) - 1

\* A first clause added with OR, whose chain word is not written, followed
\* by a raw clause with its chain word.
C29_Witness ==
    /\ Filtering
    /\ Len(arg.query["where"]) = 2
    /\ ~IsRaw(arg.query["where"][1]) /\ arg.query["where"][1].chain = "OR"
    /\ IsRaw(arg.query["where"][2])
    /\ ChainWords(WhereText(ret.out.sql, arg.query["where"])) = 1

(***************************************************************************)
(* ORDER BY and GROUP BY                                                   *)
(***************************************************************************)
Positions(sql, word) == {p \in 1..Len(sql) : sql[p] = word}

\* C30: the SQL compiled from a description that has both order_by and
\* group_by has GROUP BY before ORDER BY, and both before LIMIT.
C30_GroupByBeforeOrderBy ==
    (Compiled /\ ~Has(arg.query, "raw_query")
        /\ NonEmpty(arg.query, "order_by") /\ NonEmpty(arg.query, "group_by")) =>
        /\ Positions(ret.out.sql, "GROUP BY") # {}
        /\ Positions(ret.out.sql, "ORDER BY") # {}
        /\ \A g \in Positions(ret.out.sql, "GROUP BY"), o \in Positions(ret.out.sql, "ORDER BY") :
             /\ g < o
             /\ \A l \in Positions(ret.out.sql, "LIMIT") : g < l /\ o < l

====
